---- MODULE Spec2Model ----
(***************************************************************************)
(* gofmbt: model-based test generation.                                    *)
(*                                                                         *)
(* The module models the Model (transition generators, StepsFrom, Paths),  *)
(* the Walker (IterPaths / yieldPaths / Paths) and the Coverer (coverage   *)
(* criteria, MarkCovered, UpdateCoverage, EstimateCoverageIncrease,        *)
(* BestPath) of package gofmbt, together with the player models of         *)
(* model_test.go that the package's tests search.                          *)
(***************************************************************************)
EXTENDS Integers, Sequences, FiniteSets, TLC

(***************************************************************************)
(* Bounds of the exploration.                                              *)
(***************************************************************************)
MaxGens == 2        \* generators registered with Model.From
MaxDepth == 2       \* largest maxLen handed to Paths / IterPaths / BestPath
MaxHistory == 2     \* longest coveredPath
MaxCovFuncs == 2    \* coverage criteria registered on one Coverer
MaxCombLen == 2     \* largest combLenMax of a k-gram criterion
MaxShuffled == 5   \* Candidate paths of a BestPath call that shuffles them
MaxExecuted == 20   \* Steps a test of model_test.go executes
MaxSearches == 2    \* BestPath calls of one run of the command-line driver

(***************************************************************************)
(* Program constants.                                                      *)
(***************************************************************************)
NumSongs == 3       \* the player of model_test.go has songs 1..3
DriverSongs == 4    \* the player of the command-line driver adds songs up to 4
DriverMaxLen == 8   \* maxLen of the BestPath calls of the driver

Nil == [nil |-> TRUE]               \* Go's nil State / nil *Step

(***************************************************************************)
(* model_test.go: PlayerState and its String().                            *)
(***************************************************************************)
PlayerState == [playing : BOOLEAN, song : 1..NumSongs]

BoolString(b) == IF b THEN "true" ELSE "false"

\* the PlayerState of the command-line driver
DriverState ==
    {s \in [playing : BOOLEAN, song : 1..DriverSongs, songcount : 1..DriverSongs] :
        s.song <= s.songcount}

\* model_test.go: fmt.Sprintf("{playing:%v,song:%v}", ps.playing, ps.song);
\* the driver: fmt.Sprintf("%s-song-%v-of-%v", desc, ps.song, ps.songcount)
String(ps) ==
    IF ps = Nil THEN "<nil>"
    ELSE IF "songcount" \in DOMAIN ps
    THEN (IF ps.playing THEN "playing" ELSE "paused") \o "-song-" \o ToString(ps.song)
            \o "-of-" \o ToString(ps.songcount)
    ELSE "{playing:" \o BoolString(ps.playing) \o ",song:" \o ToString(ps.song) \o "}"

(***************************************************************************)
(* Action, Transition, Step, Path.                                         *)
(***************************************************************************)
\* fmt.Sprintf(format, args...): the actions of the player models are built
\* from formats without verbs and without arguments, which render as
\* themselves; the driver's "addsong(%d)" takes one int.
Sprintf(format, args) ==
    IF format = "addsong(%d)" /\ Len(args) = 1
    THEN "addsong(" \o ToString(args[1]) \o ")"
    ELSE format

NewAction(format, args) ==
    [name |-> Sprintf(format, args), format |-> format, args |-> args]

NewTransition(a, sc) == [action |-> a, stateChange |-> sc]

NewStep(start, action, end) == [start |-> start, action |-> action, end |-> end]

EndState(step) == step.end

StartState(step) == step.start

\* NewPath(steps...): a fresh slice holding the steps.
NewPath(steps) == steps

(***************************************************************************)
(* The StateChange functions of model_test.go.  A StateChange value is a   *)
(* record naming the closure and what it captured; Call applies it.        *)
(***************************************************************************)
play(s) ==
    IF s.playing THEN Nil ELSE [playing |-> TRUE, song |-> s.song]

pause(s) ==
    IF ~s.playing THEN Nil ELSE [playing |-> FALSE, song |-> s.song]

nextsong(s) ==
    IF s.song >= NumSongs THEN Nil ELSE [playing |-> s.playing, song |-> s.song + 1]

prevsong(s) ==
    IF s.song <= 1 THEN Nil ELSE [playing |-> s.playing, song |-> s.song - 1]

\* setState(playing, song) returns a closure that ignores its argument.
setState(playing, song) == [fn |-> "setState", playing |-> playing, song |-> song]

\* setState(playing, song, songcount) of the driver's NewPlayerModel
setStateOfCount(playing, song, songcount) ==
    [fn |-> "setStateOfCount", playing |-> playing, song |-> song,
     songcount |-> songcount]

RECURSIVE Call(_, _)
\* sc(s) for a StateChange value sc.  The closure built by Action.Do threads
\* the state through its stateChanges in order.
Call(sc, s) ==
    CASE sc.fn = "play" -> play(s)
      [] sc.fn = "pause" -> pause(s)
      [] sc.fn = "nextsong" -> nextsong(s)
      [] sc.fn = "prevsong" -> prevsong(s)
      [] sc.fn = "setState" -> [playing |-> sc.playing, song |-> sc.song]
      [] sc.fn = "setStateOfCount" ->
            [playing |-> sc.playing, song |-> sc.song, songcount |-> sc.songcount]
      [] sc.fn = "Do" ->
            IF sc.stateChanges = <<>> THEN s
            ELSE Call([fn |-> "Do", stateChanges |-> Tail(sc.stateChanges)],
                      Call(Head(sc.stateChanges), s))

(***************************************************************************)
(* When / OnAction / Do.                                                   *)
(***************************************************************************)
RECURSIVE Concat(_)
Concat(tss) == IF tss = <<>> THEN <<>> ELSE Head(tss) \o Concat(Tail(tss))

\* When, were it to return the transitions whether enabled or not
WhenAlways(enabled, tss) == Concat(tss)

When(enabled, tss) == IF ~enabled THEN <<>> ELSE Concat(tss)

OnAction(format, args) == NewAction(format, args)

Do(a, stateChanges) ==
    << NewTransition(a, [fn |-> "Do", stateChanges |-> stateChanges]) >>

(***************************************************************************)
(* Transition generators (TransitionGen values handed to Model.From).      *)
(***************************************************************************)
\* newPlayerModelWithRawTransitions: every transition is offered in every
\* state, the StateChange decides whether it applies.
rawGen(current) ==
    << NewTransition(NewAction("play", <<>>), [fn |-> "play"]),
       NewTransition(NewAction("pause", <<>>), [fn |-> "pause"]),
       NewTransition(NewAction("nextsong", <<>>), [fn |-> "nextsong"]),
       NewTransition(NewAction("prevsong", <<>>), [fn |-> "prevsong"]) >>

\* newPlayerModelWithWhenOnAction.
whenGen(s) ==
    When(TRUE,
         << When(s.playing,
                 << Do(OnAction("pause", <<>>), << setState(FALSE, s.song) >>) >>),
            When(~s.playing,
                 << Do(OnAction("play", <<>>), << setState(TRUE, s.song) >>) >>),
            When(s.song < NumSongs,
                 << Do(OnAction("nextsong", <<>>), << setState(s.playing, s.song + 1) >>) >>),
            When(s.song > 1,
                 << Do(OnAction("prevsong", <<>>), << setState(s.playing, s.song - 1) >>) >>) >>)

\* A generator that offers only the forward transitions of the player:
\* its model has dead ends (a playing player on the last song).
forwardGen(current) ==
    << NewTransition(NewAction("nextsong", <<>>), [fn |-> "nextsong"]),
       NewTransition(NewAction("play", <<>>), [fn |-> "play"]) >>

\* NewPlayerModel of the command-line driver.
driverGen(s) ==
    When(TRUE,
         << Do(OnAction("reset", <<>>), << setStateOfCount(FALSE, 1, 1) >>),
            When(s.playing,
                 << Do(OnAction("pause", <<>>),
                       << setStateOfCount(FALSE, s.song, s.songcount) >>) >>),
            When(~s.playing,
                 << Do(OnAction("play", <<>>),
                       << setStateOfCount(TRUE, s.song, s.songcount) >>) >>),
            When(s.song < s.songcount,
                 << Do(OnAction("nextsong", <<>>),
                       << setStateOfCount(s.playing, s.song + 1, s.songcount) >>) >>),
            When(s.song > 1,
                 << Do(OnAction("prevsong", <<>>),
                       << setStateOfCount(s.playing, s.song - 1, s.songcount) >>) >>),
            When(s.songcount < DriverSongs,
                 << Do(OnAction("addsong(%d)", << s.songcount + 1 >>),
                       << setStateOfCount(s.playing, s.song, s.songcount + 1) >>) >>) >>)

GenPool == {"raw", "when", "forward"}

\* gen(s) for a registered generator.
CallGen(g, s) ==
    CASE g = "raw" -> rawGen(s)
      [] g = "when" -> whenGen(s)
      [] g = "forward" -> forwardGen(s)
      [] g = "driver" -> driverGen(s)

(***************************************************************************)
(* Model: TransitionsFrom, StepsFrom, Paths.                               *)
(***************************************************************************)
RECURSIVE TransitionsFrom(_, _)
TransitionsFrom(m, s) ==
    IF m = <<>> THEN <<>>
    ELSE CallGen(Head(m), s) \o TransitionsFrom(Tail(m), s)

RECURSIVE StepsOf(_, _)
\* the loop, were it to make a Step of a transition whose change does not
\* apply
StepsOfEvery(ts, s) ==
    [i \in 1..Len(ts) |-> NewStep(s, ts[i].action, Call(ts[i].stateChange, s))]

\* the loop of StepsFrom over the transitions ts
StepsOf(ts, s) ==
    IF ts = <<>> THEN <<>>
    ELSE LET t == Head(ts)
             endState == Call(t.stateChange, s)
         IN  (IF endState # Nil THEN << NewStep(s, t.action, endState) >> ELSE <<>>)
             \o StepsOf(Tail(ts), s)

StepsFrom(m, s) == StepsOf(TransitionsFrom(m, s), s)

RECURSIVE ModelPaths(_, _, _)
RECURSIVE ModelPathsLoop(_, _, _)
\* the loop, were it to put the paths of a later step before those of an
\* earlier one
ModelPathsLoopPrepend(m, steps, maxLen) ==
    IF steps = <<>> THEN <<>>
    ELSE LET step == Head(steps)
             newPath == NewPath(<< step >>)
             childPaths == ModelPaths(m, EndState(step), maxLen - 1)
         IN  ModelPathsLoop(m, Tail(steps), maxLen)
             \o (IF Len(childPaths) = 0 THEN << newPath >>
                 ELSE [i \in 1..Len(childPaths) |-> newPath \o childPaths[i]])

\* the loop of Model.Paths over the steps
ModelPathsLoop(m, steps, maxLen) ==
    IF steps = <<>> THEN <<>>
    ELSE LET step == Head(steps)
             newPath == NewPath(<< step >>)
             childPaths == ModelPaths(m, EndState(step), maxLen - 1)
         IN  (IF Len(childPaths) = 0 THEN << newPath >>
              ELSE [i \in 1..Len(childPaths) |-> newPath \o childPaths[i]])
             \o ModelPathsLoop(m, Tail(steps), maxLen)

\* Model.Paths; a nil result is the empty sequence.
ModelPaths(m, s, maxLen) ==
    IF maxLen = 0 THEN <<>>
    ELSE ModelPathsLoop(m, StepsFrom(m, s), maxLen)

(***************************************************************************)
(* Walker: step filters, yieldPaths, IterPaths, Paths.                     *)
(***************************************************************************)
\* StepFilter values handed to SetStepFilter: keep only the Steps whose action
\* is not prevsong, or keep nothing.
FilterPool == {"noPrevsong", "nothing"}

\* a nil StepFilter
NilFilter == "nil"

RECURSIVE CallFilter(_, _)
CallFilter(f, steps) ==
    IF steps = <<>> THEN <<>>
    ELSE (IF f = "noPrevsong" /\ Head(steps).action.name # "prevsong"
          THEN << Head(steps) >> ELSE <<>>)
         \o CallFilter(f, Tail(steps))

\* make(Path, maxLen, maxLen)
RECURSIVE MakePath(_)
MakePath(maxLen) == IF maxLen = 0 THEN << >> ELSE Append(MakePath(maxLen - 1), Nil)

\* yield(view): the consumer receives the first n slots of the shared buffer
\* and answers whether it wants more; a consumer that breaks out of its
\* range loop at its breakAt-th path answers false there, one that never
\* breaks (breakAt = 0) always answers true.
Yield(acc, n) ==
    LET out == Append(acc.out, [path |-> SubSeq(acc.path, 1, n), len |-> n])
    IN  [acc EXCEPT !.out = out, !.ok = (acc.breakAt = 0 \/ Len(out) < acc.breakAt)]

RECURSIVE yieldPaths(_, _, _, _, _)
RECURSIVE yieldLoop(_, _, _, _, _)
\* the range loop, were it to search on from the state a step starts in
yieldLoopFromStart(w, acc, nextSteps, index, maxLen) ==
    IF nextSteps = <<>> THEN acc
    ELSE LET step == Head(nextSteps)
             r == yieldPaths(w, [acc EXCEPT !.path[index + 1] = step],
                             index + 1, StartState(step), maxLen)
         IN  IF ~r.ok THEN r
             ELSE yieldLoop(w, r, Tail(nextSteps), index, maxLen)

\* the range loop of yieldPaths over nextSteps
yieldLoop(w, acc, nextSteps, index, maxLen) ==
    IF nextSteps = <<>> THEN acc
    ELSE LET step == Head(nextSteps)
             r == yieldPaths(w, [acc EXCEPT !.path[index + 1] = step],
                             index + 1, EndState(step), maxLen)
         IN  IF ~r.ok THEN r
             ELSE yieldLoop(w, r, Tail(nextSteps), index, maxLen)

\* yieldPaths, were it to yield nothing at a dead end
yieldPathsSilent(w, acc, index, s, maxLen) ==
    IF index = maxLen THEN Yield(acc, Len(acc.path))
    ELSE LET all == StepsFrom(w.m, s)
             nextSteps == IF w.stepFilter # NilFilter THEN CallFilter(w.stepFilter, all)
                          ELSE all
         IN  IF Len(nextSteps) = 0 THEN acc
             ELSE yieldLoop(w, acc, nextSteps, index, maxLen)

\* yieldPaths, were it to follow every Step the model offers
yieldPathsUnfiltered(w, acc, index, s, maxLen) ==
    IF index = maxLen THEN Yield(acc, Len(acc.path))
    ELSE LET nextSteps == StepsFrom(w.m, s)
         IN  IF Len(nextSteps) = 0 THEN Yield(acc, index)
             ELSE yieldLoop(w, acc, nextSteps, index, maxLen)

\* Walker.yieldPaths; acc.path is *path, acc.ok the returned bool.
yieldPaths(w, acc, index, s, maxLen) ==
    IF index = maxLen THEN Yield(acc, Len(acc.path))
    ELSE LET all == StepsFrom(w.m, s)
             nextSteps == IF w.stepFilter # NilFilter THEN CallFilter(w.stepFilter, all)
                          ELSE all
         IN  IF Len(nextSteps) = 0 THEN Yield(acc, index)
             ELSE yieldLoop(w, acc, nextSteps, index, maxLen)

\* Running the sequence returned by IterPaths(s, maxLen) with a consumer
\* that breaks at its breakAt-th path.
RunIter(w, s, maxLen, breakAt) ==
    yieldPaths(w, [path |-> MakePath(maxLen), out |-> <<>>, ok |-> TRUE,
                   breakAt |-> breakAt],
               0, s, maxLen)

\* Walker.Paths, were it to keep the yielded slices of the shared buffer
\* without copying them
WalkerPathsShared(w, s, maxLen) ==
    LET r == RunIter(w, s, maxLen, 0)
    IN  [i \in 1..Len(r.out) |-> SubSeq(r.path, 1, r.out[i].len)]

\* Walker.Paths: the range loop never breaks and copies every yielded path
\* when it is yielded.
WalkerPaths(w, s, maxLen) ==
    LET r == RunIter(w, s, maxLen, 0)
    IN  [i \in 1..Len(r.out) |-> r.out[i].path]

(***************************************************************************)
(* Coverer: coverage criteria.                                             *)
(***************************************************************************)
\* BestPathRandom levels
BestPathRandomNone == 0
BestPathRandomAmongEquallyGood == 1
BestPathRandomAmongFastestMaxCoverageIncrease == 2
BestPathRandomAmongMaxCoverageIncrease == 3
BestPathRandomAmongAnyPath == 4

\* The separator "\x00" of the k-gram and state-action items, written with
\* a character that no action name and no state rendering contains.
Sep == "|"

Range(seq) == {seq[i] : i \in DOMAIN seq}

Min(a, b) == IF a < b THEN a ELSE b

RECURSIVE Join(_, _)
\* strings.Join
Join(elems, sep) ==
    IF elems = <<>> THEN ""
    ELSE IF Len(elems) = 1 THEN elems[1]
    ELSE elems[1] \o sep \o Join(Tail(elems), sep)

\* path[first:first+combLen], first counted from 0
Slice(path, first, combLen) == SubSeq(path, first + 1, first + combLen)

ActionNames(path) == [i \in 1..Len(path) |-> path[i].action.name]

ActionFormats(path) == [i \in 1..Len(path) |-> path[i].action.format]

\* StateStrings, were it to leave out the start state of the path
StateStringsOfEnds(path) == [i \in 1..Len(path) |-> String(path[i].end)]

StateStrings(path) ==
    IF Len(path) = 0 THEN <<>>
    ELSE << String(path[1].start) >> \o [i \in 1..Len(path) |-> String(path[i].end)]

StateActionStrings(path) ==
    [i \in 1..Len(path) |->
        String(StartState(path[i])) \o Sep \o path[i].action.name]

\* The closures registered by the Cover*Combinations methods: for combLen
\* from 1 to combLenMax, for first from 0 to len(path)-combLen, one item.
\* the closure of CoverActionCombinations, were first to stop one short
ActionCombinationsShort(path, combLenMax) ==
    Concat([combLen \in 1..combLenMax |->
              [f \in 1..(Len(path) - combLen) |->
                 Join(ActionNames(Slice(path, f - 1, combLen)), Sep)]])

\* the closure of CoverActionCombinations, were it to take the runs of
\* combLenMax Steps only
ActionCombinationsOfLength(path, combLenMax) ==
    [f \in 1..(Len(path) - combLenMax + 1) |->
        Join(ActionNames(Slice(path, f - 1, combLenMax)), Sep)]

ActionCombinations(path, combLenMax) ==
    Concat([combLen \in 1..combLenMax |->
              [f \in 1..(Len(path) - combLen + 1) |->
                 Join(ActionNames(Slice(path, f - 1, combLen)), Sep)]])

ActionFormatCombinations(path, combLenMax) ==
    Concat([combLen \in 1..combLenMax |->
              [f \in 1..(Len(path) - combLen + 1) |->
                 Join(ActionFormats(Slice(path, f - 1, combLen)), Sep)]])

StateCombinations(path, combLenMax) ==
    Concat([combLen \in 1..combLenMax |->
              [f \in 1..(Len(path) - combLen + 1) |->
                 Join(StateStrings(Slice(path, f - 1, combLen)), Sep)]])

\* A registered CoveredInPath value applied to a path.
CallCovFunc(cf, path) ==
    CASE cf.fn = "ActionNames" -> ActionNames(path)
      [] cf.fn = "ActionFormats" -> ActionFormats(path)
      [] cf.fn = "StateStrings" -> StateStrings(path)
      [] cf.fn = "StateActionStrings" -> StateActionStrings(path)
      [] cf.fn = "ActionCombinations" -> ActionCombinations(path, cf.combLenMax)
      [] cf.fn = "ActionFormatCombinations" ->
            ActionFormatCombinations(path, cf.combLenMax)
      [] cf.fn = "StateCombinations" -> StateCombinations(path, cf.combLenMax)

\* covFunc, were it to keep only what the criterion registered last covers
covFuncLast(covFuncs, path) ==
    IF covFuncs = <<>> THEN <<>>
    ELSE CallCovFunc(covFuncs[Len(covFuncs)], path)

\* Coverer.covFunc
covFunc(covFuncs, path) ==
    Concat([i \in 1..Len(covFuncs) |-> CallCovFunc(covFuncs[i], path)])

\* map[string]int{}
EmptyMap == [s \in {} |-> 0]

\* c.coverCount[s], zero for a missing key
Count(coverCount, s) == IF s \in DOMAIN coverCount THEN coverCount[s] ELSE 0

\* the loop of UpdateCoverage: c.coverCount[s]++ for every s of items
CountAll(items) ==
    [s \in Range(items) |-> Cardinality({i \in DOMAIN items : items[i] = s})]

(***************************************************************************)
(* Go slices.  c.coveredPath is a slice: the first len slots of a backing  *)
(* array whose length is the slice's capacity.  append writes in place     *)
(* when the capacity suffices and moves to a new array otherwise.          *)
(***************************************************************************)
\* capacity chosen by append when the old array (oldCap slots) is too small
\* for newLen pointers (runtime growslice, rounded up to an allocation size)
GrowCap(oldCap, newLen) ==
    LET want == IF newLen > 2 * oldCap THEN newLen ELSE 2 * oldCap
    IN  IF want <= 4 \/ want % 2 = 0 THEN want ELSE want + 1

\* the backing array after append(s, elems...) when it fits: s ends at slot
\* len of arr and the elements are written behind it
WriteInPlace(arr, len, elems) ==
    [i \in 1..Len(arr) |->
        IF i > len /\ i <= len + Len(elems) THEN elems[i - len] ELSE arr[i]]

\* c.coveredPath as a value
CoveredPathOf(c) == SubSeq(c.coveredArr, 1, c.coveredLen)

(***************************************************************************)
(* Coverer: UpdateCoverage, MarkCovered, EstimateCoverageIncrease.         *)
(***************************************************************************)
\* Coverer.Coverage
Coverage(coverCount) == Cardinality(DOMAIN coverCount)

\* Coverer.CoveredStrings, as a set
CoveredStrings(coverCount) == DOMAIN coverCount

\* UpdateCoverage, were it to count on top of the counts it finds
UpdateCoverageOfKeeps(c) ==
    LET new == CountAll(covFunc(c.covFuncs, CoveredPathOf(c)))
    IN  [s \in DOMAIN c.coverCount \cup DOMAIN new |->
            Count(c.coverCount, s) + Count(new, s)]

\* Coverer.UpdateCoverage: the new c.coverCount
UpdateCoverageOf(c) == CountAll(covFunc(c.covFuncs, CoveredPathOf(c)))

\* MarkCovered, were it to put the steps in the place of the covered path
MarkCoveredOfReplacing(c, steps) ==
    [c EXCEPT !.coveredArr = steps, !.coveredLen = Len(steps)]

\* Coverer.MarkCovered: c.coveredPath = append(c.coveredPath, step...)
MarkCoveredOf(c, steps) ==
    LET newLen == c.coveredLen + Len(steps)
    IN  IF newLen <= Len(c.coveredArr)
        THEN [c EXCEPT !.coveredArr = WriteInPlace(c.coveredArr, c.coveredLen, steps),
                       !.coveredLen = newLen]
        ELSE LET cap == GrowCap(Len(c.coveredArr), newLen)
             IN  [c EXCEPT !.coveredArr =
                              CoveredPathOf(c) \o steps \o [i \in 1..(cap - newLen) |-> Nil],
                           !.coveredLen = newLen]

\* the keys s of items with c.coverCount[s] == 0
NotCovered(c, items) == {s \in Range(items) : Count(c.coverCount, s) = 0}

RECURSIVE EstimateLoop(_, _, _, _, _, _)
\* the loop of EstimateCoverageIncrease over i; firstCoverCount is the key
\* set of the map of that name
EstimateLoop(c, pathWithHistory, historyLen, i, est, firstCoverCount) ==
    IF ~(i < Len(pathWithHistory)) THEN est
    ELSE LET newCovered == covFunc(c.covFuncs, SubSeq(pathWithHistory, 1, i + 1))
             fcc == firstCoverCount \cup NotCovered(c, newCovered)
             est1 == IF est.FirstStep = -1 /\ Cardinality(fcc) > 0
                     THEN [est EXCEPT !.FirstStep = i - historyLen,
                                      !.FirstIncrease = Cardinality(fcc)]
                     ELSE est
         IN  IF est1.MaxStep = -1 /\ Cardinality(fcc) = est1.MaxIncrease
             THEN [est1 EXCEPT !.MaxStep = i - historyLen]
             ELSE EstimateLoop(c, pathWithHistory, historyLen, i + 1, est1, fcc)

\* the estimate, were it to look at the candidate without the history in
\* front of it
EstimateWithoutHistory(c, path) ==
    LET allNewCovered == covFunc(c.covFuncs, path)
        fullCoverCount == NotCovered(c, allNewCovered)
        est == [MaxStep |-> -1, MaxIncrease |-> Cardinality(fullCoverCount),
                FirstStep |-> -1, FirstIncrease |-> 0]
    IN  EstimateLoop(c, path, 0, 0, est, {})

\* the estimate, were it to take for covered what lies in the array of
\* c.coveredPath behind the covered Steps as well
EstimateSeesArray(c, path) ==
    LET whole == SelectSeq(c.coveredArr, LAMBDA step : step # Nil)
        seen == [c EXCEPT !.coverCount = CountAll(covFunc(c.covFuncs, whole))]
        coveredPath == CoveredPathOf(c)
        historyLen == Min(c.historyLen, Len(coveredPath))
        pathWithHistory ==
            SubSeq(coveredPath, Len(coveredPath) - historyLen + 1, Len(coveredPath))
            \o path
        allNewCovered == covFunc(c.covFuncs, pathWithHistory)
        fullCoverCount == NotCovered(seen, allNewCovered)
        est == [MaxStep |-> -1, MaxIncrease |-> Cardinality(fullCoverCount),
                FirstStep |-> -1, FirstIncrease |-> 0]
    IN  EstimateLoop(seen, pathWithHistory, historyLen, historyLen, est, {})

\* Coverer.EstimateCoverageIncrease: the returned stats
EstimateCoverageIncrease(c, path) ==
    LET coveredPath == CoveredPathOf(c)
        historyLen == Min(c.historyLen, Len(coveredPath))
        pathWithHistory ==
            SubSeq(coveredPath, Len(coveredPath) - historyLen + 1, Len(coveredPath))
            \o path
        allNewCovered == covFunc(c.covFuncs, pathWithHistory)
        fullCoverCount == NotCovered(c, allNewCovered)
        est == [MaxStep |-> -1, MaxIncrease |-> Cardinality(fullCoverCount),
                FirstStep |-> -1, FirstIncrease |-> 0]
    IN  EstimateLoop(c, pathWithHistory, historyLen, historyLen, est, {})

\* the estimate, were it to keep the candidate appended to c.coveredPath
EstimateEffectAppends(c, path) == MarkCoveredOf(c, path)

\* the estimate, were it to count the new items in c.coverCount
EstimateEffectCounts(c, path) ==
    LET coveredPath == CoveredPathOf(c)
        historyLen == Min(c.historyLen, Len(coveredPath))
        pathWithHistory ==
            SubSeq(coveredPath, Len(coveredPath) - historyLen + 1, Len(coveredPath))
            \o path
        new == NotCovered(c, covFunc(c.covFuncs, pathWithHistory))
    IN  [c EXCEPT !.coverCount =
            [s \in DOMAIN c.coverCount \cup new |-> IF s \in new THEN 1 ELSE c.coverCount[s]]]

\* Coverer.EstimateCoverageIncrease: the Coverer afterwards.  pathWithHistory
\* is appended to a slice of c.coveredPath, so the candidate lands in the
\* spare capacity of the history's array when it fits there.
EstimateEffect(c, path) ==
    IF c.coveredLen + Len(path) <= Len(c.coveredArr)
    THEN [c EXCEPT !.coveredArr = WriteInPlace(c.coveredArr, c.coveredLen, path)]
    ELSE c

(***************************************************************************)
(* Coverer.BestPath.                                                       *)
(***************************************************************************)
\* the body, were it to rank candidates that do not increase coverage too
BestPathBodyKeepsAll(b, path, randomness) ==
    LET est == EstimateCoverageIncrease(b.c, path)
        skip == [b EXCEPT !.c = EstimateEffect(b.c, path)]
        take == [skip EXCEPT !.bestPath = path, !.best = est]
        best == b.best
    IN  IF best = Nil THEN take
        ELSE IF est.MaxIncrease < best.MaxIncrease THEN skip
        ELSE IF est.MaxIncrease > best.MaxIncrease THEN take
        ELSE IF est.MaxStep > best.MaxStep THEN skip
        ELSE IF est.MaxStep < best.MaxStep THEN take
        ELSE IF est.FirstStep > best.FirstStep THEN skip
        ELSE IF est.FirstStep < best.FirstStep THEN take
        ELSE IF est.FirstIncrease < best.FirstIncrease THEN skip
        ELSE IF est.FirstIncrease > best.FirstIncrease THEN take
        ELSE skip

\* the body, were it to prefer the later MaxStep
BestPathBodyLaterMaxStep(b, path, randomness) ==
    LET est == EstimateCoverageIncrease(b.c, path)
        skip == [b EXCEPT !.c = EstimateEffect(b.c, path)]
        take == [skip EXCEPT !.bestPath = path, !.best = est]
        best == b.best
    IN  IF est.MaxIncrease = 0 THEN skip
        ELSE IF best = Nil THEN take
        ELSE IF est.MaxIncrease < best.MaxIncrease THEN skip
        ELSE IF est.MaxIncrease > best.MaxIncrease THEN take
        ELSE IF est.MaxStep < best.MaxStep THEN skip
        ELSE IF est.MaxStep > best.MaxStep THEN take
        ELSE IF est.FirstStep > best.FirstStep THEN skip
        ELSE IF est.FirstStep < best.FirstStep THEN take
        ELSE IF est.FirstIncrease < best.FirstIncrease THEN skip
        ELSE IF est.FirstIncrease > best.FirstIncrease THEN take
        ELSE skip

\* the body, were it to consult all four values in every randomness mode
BestPathBodyAllCriteria(b, path, randomness) ==
    LET est == EstimateCoverageIncrease(b.c, path)
        skip == [b EXCEPT !.c = EstimateEffect(b.c, path)]
        take == [skip EXCEPT !.bestPath = path, !.best = est]
        best == b.best
    IN  IF est.MaxIncrease = 0 THEN skip
        ELSE IF best = Nil THEN take
        ELSE IF est.MaxIncrease < best.MaxIncrease THEN skip
        ELSE IF est.MaxIncrease > best.MaxIncrease THEN take
        ELSE IF est.MaxStep > best.MaxStep THEN skip
        ELSE IF est.MaxStep < best.MaxStep THEN take
        ELSE IF est.FirstStep > best.FirstStep THEN skip
        ELSE IF est.FirstStep < best.FirstStep THEN take
        ELSE IF est.FirstIncrease < best.FirstIncrease THEN skip
        ELSE IF est.FirstIncrease > best.FirstIncrease THEN take
        ELSE skip

\* One pass of the body of BestPath's range loop, for the candidate path.
\* b carries best, bestPath, the Coverer and whether the loop was left by
\* break.
BestPathBody(b, path, randomness) ==
    LET est == EstimateCoverageIncrease(b.c, path)
        skip == [b EXCEPT !.c = EstimateEffect(b.c, path)]
        take == [skip EXCEPT !.bestPath = path, !.best = est]
        best == b.best
    IN  IF est.MaxIncrease = 0 THEN skip
        ELSE IF best = Nil
          THEN IF randomness >= BestPathRandomAmongAnyPath
               THEN [take EXCEPT !.broke = TRUE]
               ELSE take
        ELSE IF est.MaxIncrease < best.MaxIncrease THEN skip
        ELSE IF est.MaxIncrease > best.MaxIncrease THEN take
        ELSE IF randomness = BestPathRandomAmongMaxCoverageIncrease THEN skip
        ELSE IF est.MaxStep > best.MaxStep THEN skip
        ELSE IF est.MaxStep < best.MaxStep THEN take
        ELSE IF randomness = BestPathRandomAmongFastestMaxCoverageIncrease THEN skip
        ELSE IF est.FirstStep > best.FirstStep THEN skip
        ELSE IF est.FirstStep < best.FirstStep THEN take
        ELSE IF est.FirstIncrease < best.FirstIncrease THEN skip
        ELSE IF est.FirstIncrease > best.FirstIncrease THEN take
        ELSE skip

RECURSIVE BestPathLoop(_, _, _, _, _)
\* the range loop of BestPath over paths[lo..hi], in order: the first half,
\* then the second half
BestPathLoop(paths, lo, hi, randomness, b) ==
    IF b.broke \/ lo > hi THEN b
    ELSE IF lo = hi THEN BestPathBody(b, paths[lo], randomness)
    ELSE LET mid == (lo + hi) \div 2
             first == BestPathLoop(paths, lo, mid, randomness, b)
         IN  BestPathLoop(paths, mid + 1, hi, randomness, first)

\* the orders of n things
Orders(n) ==
    {f \in [1..n -> 1..n] : \A i, j \in 1..n : f[i] = f[j] => i = j}

\* Coverer.ShufflePaths: the orders c.rand.Shuffle can leave paths in, the
\* seed and the state of the generator being unknown. c.rand is set wherever
\* c.randomness is not none: SetBestPathRandom writes both.
ShufflePaths(paths) ==
    {[i \in 1..Len(paths) |-> paths[f[i]]] : f \in Orders(Len(paths))}

\* the order in which the range loop of BestPath may see the paths that
\* m.Paths returned
PathOrders(c, paths) ==
    IF c.randomness # BestPathRandomNone THEN ShufflePaths(paths) ELSE {paths}

\* Coverer.BestPath from its range loop on, over paths in the order the loop
\* sees them: the returned pair and the Coverer afterwards
BestPathOf(c, paths) ==
    LET b == BestPathLoop(paths, 1, Len(paths), c.randomness,
                          [best |-> Nil, bestPath |-> <<>>, c |-> c, broke |-> FALSE])
    IN  IF Len(b.bestPath) = 0
        THEN [path |-> <<>>, stats |-> Nil, c |-> b.c]
        ELSE [path |-> b.bestPath, stats |-> b.best, c |-> b.c]

(***************************************************************************)
(* State.                                                                  *)
(***************************************************************************)
VARIABLES
    gen,            \* Model.gen: the registered generators, in order
    stepFilter,     \* Walker.stepFilter, NilFilter when none is set
    covFuncs,       \* Coverer.covFuncs
    historyLen,     \* Coverer.historyLen
    coveredArr,     \* backing array of Coverer.coveredPath
    coveredLen,     \* len(Coverer.coveredPath)
    coverCount,     \* Coverer.coverCount
    randomness,     \* Coverer.randomness
    state,          \* the caller's current state of the system under test
    res,            \* what the caller holds from its last search call
    since,          \* what happened to the Coverer since UpdateCoverage last ran
    test            \* the test of model_test.go that runs, and where it is

model == <<gen, stepFilter>>
coverer == <<covFuncs, historyLen, coveredArr, coveredLen, coverCount, randomness>>
vars == <<gen, stepFilter, covFuncs, historyLen, coveredArr, coveredLen, coverCount,
          randomness, state, res, since, test>>

\* the Coverer as a value
Coverer ==
    [covFuncs |-> covFuncs, historyLen |-> historyLen, coveredArr |-> coveredArr,
     coveredLen |-> coveredLen, coverCount |-> coverCount, randomness |-> randomness]

coveredPath == SubSeq(coveredArr, 1, coveredLen)

\* the Walker as a value
Walker == [m |-> gen, stepFilter |-> stepFilter]

\* the Coverer becomes c
Becomes(c) ==
    /\ covFuncs' = c.covFuncs
    /\ historyLen' = c.historyLen
    /\ coveredArr' = c.coveredArr
    /\ coveredLen' = c.coveredLen
    /\ coverCount' = c.coverCount
    /\ randomness' = c.randomness

\* NewCoverer()
NewCoverer ==
    [covFuncs |-> <<>>, historyLen |-> 0, coveredArr |-> <<>>, coveredLen |-> 0,
     coverCount |-> EmptyMap, randomness |-> BestPathRandomNone]

InitCoverer(c) ==
    /\ covFuncs = c.covFuncs
    /\ historyLen = c.historyLen
    /\ coveredArr = c.coveredArr
    /\ coveredLen = c.coveredLen
    /\ coverCount = c.coverCount
    /\ randomness = c.randomness

\* no test of model_test.go runs
NoTest == [name |-> "none"]

\* the caller holds no result
NoResult == [op |-> "none", fresh |-> FALSE]

\* the caller makes one search call at a time
Idle == res = NoResult

\* what the caller holds no longer describes the current Coverer
Stale == res' = [res EXCEPT !.fresh = FALSE]

\* the caller lets go of the result it holds
Drop ==
    /\ ~Idle
    /\ res' = NoResult
    /\ UNCHANGED <<model, coverer, state, test, since>>

(***************************************************************************)
(* Model and Walker operations.                                            *)
(***************************************************************************)
From(g) ==
    /\ Idle
    /\ Len(gen) < MaxGens
    /\ gen' = Append(gen, g)
    /\ UNCHANGED <<stepFilter, coverer, state, test, res, since>>

SetStepFilter(f) ==
    /\ Idle
    /\ stepFilter' = f
    /\ UNCHANGED <<gen, coverer, state, test, res, since>>

\* paths := m.Paths(s, maxLen)
CallModelPaths(s, maxLen) ==
    /\ Idle
    /\ res' = [op |-> "Model.Paths", fresh |-> TRUE, s |-> s, maxLen |-> maxLen,
               paths |-> ModelPaths(gen, s, maxLen)]
    /\ UNCHANGED <<model, coverer, state, test, since>>

\* ts := m.TransitionsFrom(s)
CallTransitionsFrom(s) ==
    /\ Idle
    /\ res' = [op |-> "TransitionsFrom", fresh |-> TRUE, s |-> s,
               ts |-> TransitionsFrom(gen, s)]
    /\ UNCHANGED <<model, coverer, state, test, since>>

\* steps := m.StepsFrom(s)
CallStepsFrom(s) ==
    /\ Idle
    /\ res' = [op |-> "StepsFrom", fresh |-> TRUE, s |-> s,
               steps |-> StepsFrom(gen, s)]
    /\ UNCHANGED <<model, coverer, state, test, since>>

\* paths := w.Paths(s, maxLen)
CallWalkerPaths(s, maxLen) ==
    /\ Idle
    /\ res' = [op |-> "Walker.Paths", fresh |-> TRUE, s |-> s, maxLen |-> maxLen,
               paths |-> WalkerPaths(Walker, s, maxLen)]
    /\ UNCHANGED <<model, coverer, state, test, since>>

\* seq := w.IterPaths(s, maxLen): the buffer is made, nothing is yielded yet
IterPaths(s, maxLen) ==
    /\ Idle
    /\ res' = [op |-> "IterPaths", fresh |-> TRUE, s |-> s, maxLen |-> maxLen,
               n |-> 0, path |-> MakePath(maxLen), yielding |-> FALSE, len |-> 0,
               lens |-> <<>>, done |-> FALSE]
    /\ UNCHANGED <<model, coverer, state, test, since>>

\* the range loop over seq asks for the next path: yieldPaths runs on to its
\* next yield, or returns
IterNext ==
    /\ res.op = "IterPaths"
    /\ ~res.done
    /\ LET r == RunIter(Walker, res.s, res.maxLen, res.n + 1)
       IN  IF Len(r.out) = res.n + 1
           THEN res' = [res EXCEPT !.n = res.n + 1, !.path = r.path,
                                   !.yielding = TRUE, !.len = r.out[res.n + 1].len,
                                   !.lens = Append(res.lens, r.out[res.n + 1].len)]
           ELSE res' = [res EXCEPT !.path = r.path, !.yielding = FALSE, !.done = TRUE]
    /\ UNCHANGED <<model, coverer, state, test, since>>

\* the path the range loop body holds while the iterator is suspended in yield
YieldedPath == SubSeq(res.path, 1, res.len)

\* the i-th yielded path as a consumer sees it that kept the yielded slice
\* without copying it: res.lens[i] slots of the shared buffer
RetainedPath(i) == SubSeq(res.path, 1, res.lens[i])

(***************************************************************************)
(* Coverer operations.                                                     *)
(***************************************************************************)
addCovFunc(cf, combLenMax) ==
    /\ Idle
    /\ Len(covFuncs) < MaxCovFuncs
    /\ covFuncs' = Append(covFuncs, cf)
    /\ historyLen' = IF historyLen < combLenMax THEN combLenMax ELSE historyLen
    /\ since' = [since EXCEPT !.registered = TRUE]
    /\ UNCHANGED <<model, coveredArr, coveredLen, coverCount, randomness, state, test, res>>

CoverActions == addCovFunc([fn |-> "ActionNames"], 0)

CoverActionFormats == addCovFunc([fn |-> "ActionFormats"], 0)

CoverActionCombinations(combLenMax) ==
    addCovFunc([fn |-> "ActionCombinations", combLenMax |-> combLenMax], combLenMax)

CoverActionFormatCombinations(combLenMax) ==
    addCovFunc([fn |-> "ActionFormatCombinations", combLenMax |-> combLenMax], combLenMax)

CoverStates == addCovFunc([fn |-> "StateStrings"], 0)

CoverStateActions == addCovFunc([fn |-> "StateActionStrings"], 0)

CoverStateCombinations(combLenMax) ==
    addCovFunc([fn |-> "StateCombinations", combLenMax |-> combLenMax], combLenMax)

UpdateCoverage ==
    /\ coverCount' = UpdateCoverageOf(Coverer)
    /\ since' = [marked |-> FALSE, registered |-> FALSE]
    /\ Stale
    /\ UNCHANGED <<model, covFuncs, historyLen, coveredArr, coveredLen, randomness, state, test>>

\* c.MarkCovered(steps...), the caller going on to hold held
MarkCovered(steps, held) ==
    /\ coveredLen + Len(steps) <= MaxHistory
    /\ Becomes(MarkCoveredOf(Coverer, steps))
    /\ since' = [since EXCEPT !.marked = TRUE]
    /\ res' = held
    /\ UNCHANGED <<model, state, test>>

\* est := c.EstimateCoverageIncrease(path)
CallEstimate(path) ==
    /\ Becomes(EstimateEffect(Coverer, path))
    /\ res' = [op |-> "Estimate", fresh |-> TRUE, path |-> path,
               est |-> EstimateCoverageIncrease(Coverer, path)]
    /\ UNCHANGED <<model, state, test, since>>

\* path, stats := c.BestPath(m, s, maxLen)
BestPath(s, maxLen) ==
    /\ Idle
    /\ \E all \in {ModelPaths(gen, s, maxLen)} :
          /\ randomness # BestPathRandomNone => Len(all) <= MaxShuffled
          /\ \E paths \in PathOrders(Coverer, all) :
                \E r \in {BestPathOf(Coverer, paths)} :
                   /\ Becomes(r.c)
                   /\ res' = [op |-> "BestPath", fresh |-> TRUE, s |-> s,
                              maxLen |-> maxLen, paths |-> paths,
                              path |-> r.path, stats |-> r.stats, done |-> 0]
    /\ UNCHANGED <<model, state, test, since>>

\* c.SetBestPathRandom(seed, randomness)
SetBestPathRandom(r) ==
    /\ Idle
    /\ randomness' = r
    /\ UNCHANGED <<model, covFuncs, historyLen, coveredArr, coveredLen, coverCount,
                   state, res, test, since>>

(***************************************************************************)
(* The caller: a test-generation loop as in model_test.go and the package  *)
(* documentation.  It searches from its current state, executes a path it  *)
(* got Step by Step from the front, marks the executed Steps covered (one  *)
(* by one or several at once), updates the coverage, and goes on from the  *)
(* end state of a Step it has executed.                                    *)
(***************************************************************************)
\* for _, step := range path[done:upto] { c.MarkCovered(step) }, or
\* c.MarkCovered(path[done:upto]...)
MarkHeld ==
    /\ res.op = "BestPath"
    /\ \E upto \in (res.done + 1)..Len(res.path) :
          MarkCovered(SubSeq(res.path, res.done + 1, upto),
                      [res EXCEPT !.fresh = FALSE, !.done = upto])

\* the caller estimates one of the enumerated paths
EstimateHeld ==
    /\ res.op \in {"Model.Paths", "Walker.Paths"}
    /\ \E p \in Range(res.paths) : CallEstimate(p)

\* state = path[i].EndState() for an executed Step; the loop body ends
Advance ==
    /\ res.op = "BestPath"
    /\ \E i \in 1..res.done : state' = EndState(res.path[i])
    /\ res' = NoResult
    /\ UNCHANGED <<model, coverer, since, test>>

Depths == 0..MaxDepth

(***************************************************************************)
(* Specification of a test-generation session on the player model.         *)
(***************************************************************************)
Init ==
    /\ gen = << "raw" >>
    /\ stepFilter = NilFilter
    /\ InitCoverer(NewCoverer)
    /\ state = [playing |-> FALSE, song |-> 1]
    /\ res = NoResult
    /\ since = [marked |-> FALSE, registered |-> FALSE]
    /\ test = NoTest

Next ==
    \/ CoverActions
    \/ CoverActionFormats
    \/ \E n \in 1..MaxCombLen : CoverActionCombinations(n)
    \/ \E n \in 1..MaxCombLen : CoverActionFormatCombinations(n)
    \/ CoverStates
    \/ CoverStateActions
    \/ \E n \in 1..MaxCombLen : CoverStateCombinations(n)
    \/ UpdateCoverage
    \/ \E d \in Depths : CallModelPaths(state, d)
    \/ EstimateHeld
    \/ \E d \in Depths : BestPath(state, d)
    \/ MarkHeld
    \/ Advance
    \/ Drop

Spec == Init /\ [][Next]_vars

(***************************************************************************)
(* Specification of the searches over the models built from GenPool, with  *)
(* the Coverer of TestSearchPathsTestSteps (state-action pairs).           *)
(***************************************************************************)
InitWalk ==
    /\ gen = <<>>
    /\ stepFilter = NilFilter
    /\ InitCoverer([NewCoverer EXCEPT !.covFuncs = << [fn |-> "StateActionStrings"] >>])
    /\ state = [playing |-> FALSE, song |-> 1]
    /\ res = NoResult
    /\ since = [marked |-> FALSE, registered |-> FALSE]
    /\ test = NoTest

NextWalk ==
    \/ \E g \in GenPool : From(g)
    \/ \E f \in FilterPool \cup {NilFilter} : SetStepFilter(f)
    \/ \E s \in PlayerState : CallTransitionsFrom(s)
    \/ \E s \in PlayerState : CallStepsFrom(s)
    \/ \E s \in PlayerState, d \in Depths : CallModelPaths(s, d)
    \/ \E s \in PlayerState, d \in Depths : CallWalkerPaths(s, d)
    \/ \E s \in PlayerState, d \in Depths : IterPaths(s, d)
    \/ IterNext
    \/ \E s \in PlayerState, d \in Depths : BestPath(s, d)
    \/ Drop

SpecWalk == InitWalk /\ [][NextWalk]_vars

(***************************************************************************)
(* The tests of model_test.go.  Every test runs its body once for each of  *)
(* the two player models, with a NewCoverer and the start state            *)
(* {playing:false,song:1}; test.pc is the position in the body and test.i  *)
(* the counter i of TestSearchPathsTestSteps.                              *)
(***************************************************************************)
TestNames ==
    {"TestCoverPlayerActions", "TestCoverPlayerStates", "TestStepsFrom",
     "TestSearchPathsTestSteps"}

\* maxLen of the BestPath call of TestCoverPlayerActions
ActionsMaxLen == 6
\* maxLen of the BestPath call of TestCoverPlayerStates
StatesMaxLen == 8
\* maxLen of the BestPath calls of TestSearchPathsTestSteps
SearchMaxLen == 6

\* playerModels
playerModels == {<< "raw" >>, << "when" >>}

At(name, pc) == test.name = name /\ test.pc = pc

Goto(pc) == test' = [test EXCEPT !.pc = pc]

\* coverer.CoverActionCombinations(1), coverer.CoverStates(),
\* coverer.CoverStateActions()
TestRegister ==
    /\ test.name \in {"TestCoverPlayerActions", "TestCoverPlayerStates",
                      "TestSearchPathsTestSteps"}
    /\ test.pc = "start"
    /\ LET cf == CASE test.name = "TestCoverPlayerActions" ->
                         [fn |-> "ActionCombinations", combLenMax |-> 1]
                   [] test.name = "TestCoverPlayerStates" -> [fn |-> "StateStrings"]
                   [] test.name = "TestSearchPathsTestSteps" ->
                         [fn |-> "StateActionStrings"]
           combLenMax == IF test.name = "TestCoverPlayerActions" THEN 1 ELSE 0
       IN  /\ covFuncs' = Append(covFuncs, cf)
           /\ historyLen' = IF historyLen < combLenMax THEN combLenMax ELSE historyLen
    /\ since' = [since EXCEPT !.registered = TRUE]
    /\ Goto("search")
    /\ UNCHANGED <<model, coveredArr, coveredLen, coverCount, randomness, state, res>>

\* path, stats := coverer.BestPath(model, state, maxLen)
TestBestPath ==
    /\ test.pc = "search"
    /\ LET maxLen == CASE test.name = "TestCoverPlayerActions" -> ActionsMaxLen
                       [] test.name = "TestCoverPlayerStates" -> StatesMaxLen
                       [] test.name = "TestSearchPathsTestSteps" -> SearchMaxLen
       IN  \E r \in {BestPathOf(Coverer, ModelPaths(gen, state, maxLen))} :
              /\ Becomes(r.c)
              /\ res' = [op |-> "BestPath", fresh |-> TRUE, s |-> state,
                         maxLen |-> maxLen, path |-> r.path, stats |-> r.stats,
                         done |-> 0]
              /\ Goto(IF test.name # "TestSearchPathsTestSteps" THEN "check"
                      ELSE IF Len(r.path) = 0 THEN "done" ELSE "execute")
    /\ UNCHANGED <<model, state, since>>

\* altSteps := model.StepsFrom(state)
TestCallStepsFrom ==
    /\ At("TestStepsFrom", "start")
    /\ res' = [op |-> "StepsFrom", fresh |-> TRUE, s |-> state,
               steps |-> StepsFrom(gen, state)]
    /\ Goto("check")
    /\ UNCHANGED <<model, coverer, state, since>>

\* the names of the actions of steps
Names(steps) == {steps[i].action.name : i \in DOMAIN steps}

\* what the t.Fatalf conditions of the test at its position demand
Expected ==
    CASE At("TestCoverPlayerActions", "check") ->
            /\ Len(res.path) = 6
            /\ res.stats.MaxIncrease = 4
            /\ res.stats.MaxStep = 3
            /\ Names(SubSeq(res.path, 1, res.stats.MaxStep + 1))
                   = {"play", "pause", "nextsong", "prevsong"}
      [] At("TestCoverPlayerStates", "check") ->
            /\ Len(res.path) = 8
            /\ res.stats.MaxIncrease = 6
            /\ res.stats.MaxStep = 4
            /\ Cardinality(CoveredStrings(coverCount)) = 0
      [] At("TestCoverPlayerStates", "recheck") ->
            Cardinality(CoveredStrings(coverCount)) = 6
      [] At("TestStepsFrom", "check") ->
            /\ Len(res.steps) = 2
            /\ Names(res.steps) \subseteq {"play", "nextsong"}
      [] At("TestSearchPathsTestSteps", "execute") ->
            \A k \in 2..Len(res.path) :
                String(StartState(res.path[k])) = String(EndState(res.path[k - 1]))
      [] At("TestSearchPathsTestSteps", "done") ->
            /\ Coverage(coverCount) = 14
            /\ test.i = 14
      [] OTHER -> TRUE

\* the checks of a test: t.Fatalf ends it, otherwise it goes on
TestCheck ==
    /\ test.pc \in {"check", "recheck", "done"}
    /\ Goto(IF ~Expected THEN "failed"
            ELSE IF At("TestCoverPlayerStates", "check") THEN "mark"
            ELSE "passed")
    /\ UNCHANGED <<model, coverer, state, res, since>>

\* coverer.MarkCovered(path[:stats.MaxStep+1]...) of TestCoverPlayerStates;
\* i++ and coverer.MarkCovered(step) in the loop of TestSearchPathsTestSteps
\* over path[:stats.FirstStep+1]
TestMark ==
    /\ \/ At("TestCoverPlayerStates", "mark")
       \/ At("TestSearchPathsTestSteps", "execute") /\ res.done < res.stats.FirstStep + 1
    /\ IF ~Expected
       THEN Goto("failed") /\ UNCHANGED <<model, coverer, state, res, since>>
       ELSE LET upto == IF test.name = "TestCoverPlayerStates"
                        THEN res.stats.MaxStep + 1 ELSE res.done + 1
            IN  /\ test.i < MaxExecuted
                /\ Becomes(MarkCoveredOf(Coverer, SubSeq(res.path, res.done + 1, upto)))
                /\ res' = [res EXCEPT !.fresh = FALSE, !.done = upto]
                /\ since' = [since EXCEPT !.marked = TRUE]
                /\ test' = [test EXCEPT !.pc = "update", !.i = test.i + (upto - res.done)]
                /\ UNCHANGED <<model, state>>

\* coverer.UpdateCoverage()
TestUpdate ==
    /\ test.pc = "update"
    /\ coverCount' = UpdateCoverageOf(Coverer)
    /\ since' = [marked |-> FALSE, registered |-> FALSE]
    /\ Goto(IF test.name = "TestCoverPlayerStates" THEN "recheck" ELSE "execute")
    /\ UNCHANGED <<model, covFuncs, historyLen, coveredArr, coveredLen, randomness,
                   state, res>>

\* state = path[stats.FirstStep].EndState()
TestAdvance ==
    /\ At("TestSearchPathsTestSteps", "execute")
    /\ ~(res.done < res.stats.FirstStep + 1)
    /\ state' = EndState(res.path[res.stats.FirstStep + 1])
    /\ res' = NoResult
    /\ Goto("search")
    /\ UNCHANGED <<model, coverer, since>>

InitTests ==
    /\ gen \in playerModels
    /\ stepFilter = NilFilter
    /\ InitCoverer(NewCoverer)
    /\ state = [playing |-> FALSE, song |-> 1]
    /\ res = NoResult
    /\ since = [marked |-> FALSE, registered |-> FALSE]
    /\ test \in {[name |-> n, pc |-> "start", i |-> 0] : n \in TestNames}

NextTests ==
    \/ TestRegister
    \/ TestBestPath
    \/ TestCallStepsFrom
    \/ TestCheck
    \/ TestMark
    \/ TestUpdate
    \/ TestAdvance

SpecTests == InitTests /\ [][NextTests]_vars

RandomnessModes ==
    {BestPathRandomNone, BestPathRandomAmongEquallyGood,
     BestPathRandomAmongFastestMaxCoverageIncrease,
     BestPathRandomAmongMaxCoverageIncrease, BestPathRandomAmongAnyPath}

(***************************************************************************)
(* Specification of a test-generation session that sets the randomness of  *)
(* BestPath.                                                               *)
(***************************************************************************)
InitRandom ==
    /\ gen \in playerModels
    /\ stepFilter = NilFilter
    /\ InitCoverer(NewCoverer)
    /\ state = [playing |-> FALSE, song |-> 1]
    /\ res = NoResult
    /\ since = [marked |-> FALSE, registered |-> FALSE]
    /\ test = NoTest

NextRandom ==
    \/ CoverStates
    \/ \E r \in RandomnessModes : SetBestPathRandom(r)
    \/ UpdateCoverage
    \/ \E d \in Depths : BestPath(state, d)
    \/ MarkHeld
    \/ Advance
    \/ Drop

SpecRandom == InitRandom /\ [][NextRandom]_vars

(***************************************************************************)
(* Two callers that walk the same Model through the same Walker, each      *)
(* ranging over the sequence of its own IterPaths call.  The steps of the  *)
(* two range loops interleave in any order.                                *)
(***************************************************************************)
\* seq := w.IterPaths(s, maxLen) of one caller: path := make(Path, maxLen,
\* maxLen) is made by the call, so every sequence has a buffer of its own
NewIter(s, maxLen) ==
    [s |-> s, maxLen |-> maxLen, n |-> 0, path |-> MakePath(maxLen),
     yielding |-> FALSE, len |-> 0, done |-> FALSE]

\* the callers' sequences, were they to write through one buffer: what the
\* k-th wrote shows in the buffers of the others
ResumeOfShared(w, iters, k) ==
    LET it == iters[k]
        r == RunIter(w, it.s, it.maxLen, it.n + 1)
        mine == IF Len(r.out) = it.n + 1
                THEN [it EXCEPT !.n = it.n + 1, !.path = r.path, !.yielding = TRUE,
                                !.len = r.out[it.n + 1].len]
                ELSE [it EXCEPT !.path = r.path, !.yielding = FALSE, !.done = TRUE]
    IN  [j \in DOMAIN iters |->
            IF j = k THEN mine
            ELSE [iters[j] EXCEPT !.path =
                     [i \in 1..Len(iters[j].path) |->
                         IF i <= Len(r.path) THEN r.path[i] ELSE iters[j].path[i]]]]

\* the range loop of the k-th caller asks for its next path: its yieldPaths
\* runs on to its next yield, or returns; the other sequences are not
\* touched
ResumeOf(w, iters, k) ==
    LET it == iters[k]
        r == RunIter(w, it.s, it.maxLen, it.n + 1)
    IN  [iters EXCEPT ![k] =
            IF Len(r.out) = it.n + 1
            THEN [it EXCEPT !.n = it.n + 1, !.path = r.path, !.yielding = TRUE,
                            !.len = r.out[it.n + 1].len]
            ELSE [it EXCEPT !.path = r.path, !.yielding = FALSE, !.done = TRUE]]

\* two callers call w.IterPaths, each with its own start state and maxLen
TwoIterPaths(s1, maxLen1, s2, maxLen2) ==
    /\ Idle
    /\ res' = [op |-> "TwoIterPaths", fresh |-> TRUE,
               iters |-> << NewIter(s1, maxLen1), NewIter(s2, maxLen2) >>]
    /\ UNCHANGED <<model, coverer, state, test, since>>

\* one of the two range loops goes on
TwoIterNext(k) ==
    /\ res.op = "TwoIterPaths"
    /\ ~res.iters[k].done
    /\ res' = [res EXCEPT !.iters = ResumeOf(Walker, res.iters, k)]
    /\ UNCHANGED <<model, coverer, state, test, since>>

InitConcurrent ==
    /\ gen = <<>>
    /\ stepFilter = NilFilter
    /\ InitCoverer([NewCoverer EXCEPT !.covFuncs = << [fn |-> "StateActionStrings"] >>])
    /\ state = [playing |-> FALSE, song |-> 1]
    /\ res = NoResult
    /\ since = [marked |-> FALSE, registered |-> FALSE]
    /\ test = NoTest

NextConcurrent ==
    \/ \E g \in GenPool : From(g)
    \/ CallStepsFrom(state)
    \/ \E d \in Depths : CallModelPaths(state, d)
    \/ \E d \in Depths : CallWalkerPaths(state, d)
    \/ \E d \in Depths : BestPath(state, d)
    \/ \E s \in PlayerState, d1, d2 \in Depths : TwoIterPaths(state, d1, s, d2)
    \/ \E k \in 1..2 : TwoIterNext(k)
    \/ Drop

SpecConcurrent == InitConcurrent /\ [][NextConcurrent]_vars

(***************************************************************************)
(* Properties of the enumerators.                                          *)
(***************************************************************************)
\* adjacent Steps of p connect
Chained(p) ==
    \A i \in 1..(Len(p) - 1) :
        String(EndState(p[i])) = String(StartState(p[i + 1]))

\* p is empty or starts at s
StartsAt(p, s) == p = <<>> \/ String(StartState(p[1])) = String(s)

\* the Steps a search of w follows from s
StepsKept(w, s) ==
    IF w.stepFilter # NilFilter THEN CallFilter(w.stepFilter, StepsFrom(w.m, s))
    ELSE StepsFrom(w.m, s)

\* s has no applicable transition
DeadEnd(m, s) == StepsFrom(m, s) = <<>>

\* A path is named by the positions, in StepsKept, of the Steps it takes.
Branching(w) ==
    LET n == {Len(StepsKept(w, s)) : s \in PlayerState}
    IN  CHOOSE b \in n : \A c \in n : c <= b

Choices(w, maxLen) == UNION {[1..k -> 1..Branching(w)] : k \in 0..maxLen}

RECURSIVE Follow(_, _, _)
\* the path that takes the choices ch from s, if there is one
Follow(w, s, ch) ==
    IF ch = <<>> THEN [ok |-> TRUE, path |-> <<>>, end |-> s]
    ELSE LET steps == StepsKept(w, s)
         IN  IF Head(ch) > Len(steps) THEN [ok |-> FALSE, path |-> <<>>, end |-> s]
             ELSE LET r == Follow(w, EndState(steps[Head(ch)]), Tail(ch))
                  IN  [r EXCEPT !.path = << steps[Head(ch)] >> \o r.path]

\* ch names a path of maxLen Steps, or a shorter one that ends in a dead end
Maximal(w, s, maxLen, ch) ==
    LET r == Follow(w, s, ch)
    IN  r.ok /\ (Len(ch) = maxLen \/ StepsKept(w, r.end) = <<>>)

\* depth-first order: the earlier choice at the first difference
Before(a, b) ==
    \E k \in 1..Min(Len(a), Len(b)) :
        a[k] < b[k] /\ \A j \in 1..(k - 1) : a[j] = b[j]

\* the maximal bounded paths from s, in depth-first order
MaximalPaths(w, s, maxLen) ==
    LET all == {ch \in Choices(w, maxLen) : Maximal(w, s, maxLen, ch)}
        rank == [ch \in all |-> Cardinality({o \in all : Before(o, ch)}) + 1]
    IN  [i \in 1..Cardinality(all) |->
            Follow(w, s, CHOOSE ch \in all : rank[ch] = i).path]

Unfiltered == [m |-> gen, stepFilter |-> NilFilter]

\* the paths the caller has been given by an enumerator
Enumerated ==
    CASE res.op \in {"Model.Paths", "Walker.Paths"} -> Range(res.paths)
      [] res.op = "IterPaths" /\ res.yielding -> {YieldedPath}
      [] res.op = "BestPath" -> {res.path}
      [] OTHER -> {}

\* C1: every Path handed out by Model.Paths, Walker.Paths, IterPaths or
\* BestPath is chained (each Step starts, by rendering, where the Step before
\* it ended) and starts at the state the search was started from.
C1_Chaining ==
    res.op \in {"Model.Paths", "Walker.Paths", "IterPaths", "BestPath"} =>
        \A p \in Enumerated : Chained(p) /\ StartsAt(p, res.s)

\* a search has produced a path of several Steps
C1_Witness ==
    /\ res.op \in {"Walker.Paths", "BestPath"}
    /\ \E p \in Enumerated : Len(p) >= 2

\* C2 as claimed: started at a dead end, every enumerator returns exactly one
\* Path, the empty one.
C2_AsClaimed ==
    (res.op \in {"Model.Paths", "Walker.Paths"} /\ DeadEnd(gen, res.s)) =>
        res.paths = << <<>> >>

\* C2: started at a dead end, Walker.Paths returns exactly one Path, the
\* empty one, and IterPaths yields exactly that one; Model.Paths returns no
\* Path at all.
C2_DeadEnd ==
    (res.op \in {"Model.Paths", "Walker.Paths", "IterPaths"} /\ DeadEnd(gen, res.s)) =>
        /\ res.op = "Walker.Paths" => res.paths = << <<>> >>
        /\ res.op = "IterPaths" /\ res.yielding => res.n = 1 /\ YieldedPath = <<>>
        /\ res.op = "IterPaths" /\ res.done => res.n = 1
        /\ res.op = "Model.Paths" => res.paths = <<>>

\* Walker.Paths was started with room for Steps at a dead end of a model
\* that has transitions elsewhere
C2_Witness ==
    /\ res.op = "Walker.Paths"
    /\ res.maxLen > 0
    /\ gen # <<>>
    /\ stepFilter = NilFilter
    /\ DeadEnd(gen, res.s)

\* C3 as claimed: every enumerator returns exactly the maximal bounded
\* paths, in depth-first order.
C3_AsClaimed ==
    (res.op \in {"Model.Paths", "Walker.Paths"} /\ stepFilter = NilFilter) =>
        res.paths = MaximalPaths(Unfiltered, res.s, res.maxLen)

\* C3: without a step filter Walker.Paths returns, and IterPaths yields,
\* exactly the maximal bounded paths from the start state in depth-first
\* order; Model.Paths returns the same sequence, except that it returns no
\* Path where that sequence is the single empty Path (maxLen 0, or a start
\* state that is a dead end).
C3_Contract ==
    (res.op \in {"Model.Paths", "Walker.Paths", "IterPaths"} /\ stepFilter = NilFilter) =>
        LET expected == MaximalPaths(Unfiltered, res.s, res.maxLen)
        IN  /\ res.op = "Walker.Paths" => res.paths = expected
            /\ res.op = "IterPaths" /\ res.yielding =>
                    res.n <= Len(expected) /\ YieldedPath = expected[res.n]
            /\ res.op = "IterPaths" /\ res.done => res.n = Len(expected)
            /\ res.op = "Model.Paths" =>
                    res.paths = IF expected = << <<>> >> THEN <<>> ELSE expected

\* an enumeration that returned several paths, one of them cut short by a
\* dead end
C3_Witness ==
    /\ res.op \in {"Model.Paths", "Walker.Paths"}
    /\ stepFilter = NilFilter
    /\ Len(res.paths) >= 2
    /\ \E p \in Range(res.paths) : Len(p) < res.maxLen /\ Len(p) >= 1

(***************************************************************************)
(* Properties of the Coverer.                                              *)
(***************************************************************************)
\* the candidates of the BestPath call whose result the caller holds
Candidates == ModelPaths(gen, res.s, res.maxLen)

\* what EstimateCoverageIncrease answers for p in the current state
Estimate(p) == EstimateCoverageIncrease(Coverer, p)

\* the caller holds what BestPath just returned
BestPathReturned == res.op = "BestPath" /\ res.fresh

\* the caller holds what EstimateCoverageIncrease just returned
EstimateReturned == res.op = "Estimate" /\ res.fresh

\* C4: BestPath returns (nil, nil) exactly when every candidate, if there is
\* any, has MaxIncrease 0; otherwise it returns a non-empty Path and stats
\* with MaxIncrease > 0.
C4_NoOpGuarantee ==
    BestPathReturned =>
        LET exhausted ==
                \A i \in 1..Len(Candidates) : Estimate(Candidates[i]).MaxIncrease = 0
        IN  /\ (res.path = <<>> /\ res.stats = Nil) <=> exhausted
            /\ ~exhausted =>
                    /\ Len(res.path) > 0
                    /\ res.stats # Nil
                    /\ res.stats.MaxIncrease > 0

\* BestPath returned (nil, nil) although there were candidates, after
\* coverage had been gained
C4_Witness ==
    /\ BestPathReturned
    /\ res.path = <<>>
    /\ Len(Candidates) > 0
    /\ covFuncs # <<>>
    /\ Coverage(coverCount) > 0

\* stats a ranks strictly above stats b
Better(a, b) ==
    \/ a.MaxIncrease > b.MaxIncrease
    \/ /\ a.MaxIncrease = b.MaxIncrease
       /\ \/ a.MaxStep < b.MaxStep
          \/ /\ a.MaxStep = b.MaxStep
             /\ \/ a.FirstStep < b.FirstStep
                \/ /\ a.FirstStep = b.FirstStep
                   /\ a.FirstIncrease > b.FirstIncrease

\* the positions of the candidates that increase coverage
Increasing == {i \in 1..Len(Candidates) : Estimate(Candidates[i]).MaxIncrease > 0}

\* C5: without randomness BestPath returns, with its stats, the first
\* candidate in enumeration order among those with MaxIncrease > 0 that no
\* other such candidate ranks above (higher MaxIncrease, then lower MaxStep,
\* then lower FirstStep, then higher FirstIncrease).
C5_Ranking ==
    (BestPathReturned /\ randomness = BestPathRandomNone /\ res.path # <<>>) =>
        \E k \in Increasing :
            /\ res.path = Candidates[k]
            /\ res.stats = Estimate(Candidates[k])
            /\ \A j \in Increasing :
                    /\ ~Better(Estimate(Candidates[j]), res.stats)
                    /\ j < k => Better(res.stats, Estimate(Candidates[j]))

\* BestPath chose among candidates of the same MaxIncrease that differ in
\* MaxStep, and among several that tie on all four values
C5_Witness ==
    /\ BestPathReturned
    /\ res.path # <<>>
    /\ \E j \in Increasing :
           /\ Estimate(Candidates[j]).MaxIncrease = res.stats.MaxIncrease
           /\ Estimate(Candidates[j]).MaxStep > res.stats.MaxStep
    /\ \E j \in Increasing :
           /\ Estimate(Candidates[j]) = res.stats
           /\ Candidates[j] # res.path

\* c.coverCount is what UpdateCoverage would make it
UpToDate == coverCount = UpdateCoverageOf(Coverer)

\* p starts where the last covered Step ended
ContinuesHistory(p) ==
    \/ coveredLen = 0
    \/ p = <<>>
    \/ String(StartState(p[1])) = String(EndState(coveredPath[coveredLen]))

\* Coverage() after MarkCovered(p...) and UpdateCoverage(), minus Coverage()
RealGain(p) ==
    Coverage(UpdateCoverageOf(MarkCoveredOf(Coverer, p))) - Coverage(coverCount)

\* C6: when c.coverCount is up to date with c.coveredPath and the candidate
\* starts where the last covered Step ended (or nothing is covered yet),
\* the MaxIncrease that EstimateCoverageIncrease returns is the increase of
\* Coverage() that marking the candidate covered and updating would give.
C6_EstimateIsRealGain ==
    (EstimateReturned /\ UpToDate /\ ContinuesHistory(res.path)) =>
        res.est.MaxIncrease = RealGain(res.path)

\* an estimate for a candidate that continues a covered history, under a
\* criterion of combinations that reach across the boundary, with a gain
C6_Witness ==
    /\ EstimateReturned
    /\ UpToDate
    /\ ContinuesHistory(res.path)
    /\ coveredLen > 0
    /\ historyLen >= 2
    /\ Len(res.path) >= 1
    /\ res.est.MaxIncrease > 0
    /\ res.est.MaxIncrease < Cardinality(Range(covFunc(covFuncs, res.path)))

\* the history that EstimateCoverageIncrease puts in front of a candidate
Window ==
    SubSeq(coveredPath, coveredLen - Min(historyLen, coveredLen) + 1, coveredLen)

\* no Step of p brings an item that is not counted in c.coverCount
NoNewItem(p) ==
    \A k \in 1..Len(p) :
        NotCovered(Coverer, covFunc(covFuncs, Window \o SubSeq(p, 1, k))) = {}

\* C7 as claimed: for a candidate none of whose Steps yields a new item,
\* EstimateCoverageIncrease returns FirstStep -1, MaxStep -1 and
\* MaxIncrease 0.
C7_AsClaimed ==
    (EstimateReturned /\ NoNewItem(res.path)) =>
        /\ res.est.FirstStep = -1
        /\ res.est.MaxStep = -1
        /\ res.est.MaxIncrease = 0

\* the caller has just been answered by EstimateCoverageIncrease or BestPath
Answered ==
    /\ res' # res
    /\ res'.op \in {"Estimate", "BestPath"}
    /\ res'.fresh

\* C8: EstimateCoverageIncrease and BestPath leave c.coveredPath (its Steps
\* and its length) and c.coverCount, hence Coverage() and CoveredStrings(),
\* as they were before the call.
C8_ReadOnly ==
    [][Answered =>
          /\ coveredPath' = coveredPath
          /\ coveredLen' = coveredLen
          /\ coverCount' = coverCount
          /\ Coverage(coverCount') = Coverage(coverCount)
          /\ CoveredStrings(coverCount') = CoveredStrings(coverCount)]_vars

\* BestPath has returned a path from a Coverer that holds history and
\* coverage
C8_Witness ==
    /\ BestPathReturned
    /\ res.path # <<>>
    /\ coveredLen > 0
    /\ Coverage(coverCount) > 0

\* C9: Coverage() never decreases: not by MarkCovered followed by
\* UpdateCoverage, whatever Steps are marked, nor by any other operation.
C9_Monotonic == [][Coverage(coverCount') >= Coverage(coverCount)]_vars

\* Steps were marked on top of earlier ones and the coverage was updated
C9_Witness ==
    /\ coveredLen >= 2
    /\ ~since.marked
    /\ UpToDate
    /\ Coverage(coverCount) >= 2

\* C10 as claimed: UpdateCoverage without a MarkCovered since the previous
\* UpdateCoverage (or since NewCoverer) leaves the covered-item set and
\* Coverage() as they were.
C10_AsClaimed ==
    [][(UpdateCoverage /\ ~since.marked) =>
          /\ CoveredStrings(coverCount') = CoveredStrings(coverCount)
          /\ Coverage(coverCount') = Coverage(coverCount)]_vars

\* C10: UpdateCoverage leaves the covered-item set and Coverage() as they
\* were when, since the previous UpdateCoverage (or since NewCoverer), no
\* MarkCovered has happened and no criterion has been registered on a
\* Coverer with covered Steps; so two UpdateCoverage calls in a row yield
\* the same covered-item set.
C10_Idempotent ==
    [][(UpdateCoverage /\ ~since.marked /\ (~since.registered \/ coveredLen = 0)) =>
          /\ CoveredStrings(coverCount') = CoveredStrings(coverCount)
          /\ Coverage(coverCount') = Coverage(coverCount)]_vars

\* the coverage of a covered history has been updated and nothing has been
\* marked or registered since
C10_Witness ==
    /\ coveredLen > 0
    /\ Coverage(coverCount) > 0
    /\ ~since.marked
    /\ ~since.registered

RECURSIVE Occurrences(_, _)
\* how often s occurs in items
Occurrences(items, s) ==
    IF items = <<>> THEN 0
    ELSE (IF Head(items) = s THEN 1 ELSE 0) + Occurrences(Tail(items), s)

\* C11: after UpdateCoverage c.coverCount is the histogram of the items
\* that the registered criteria give for the whole c.coveredPath: its keys
\* are exactly those items, every count is the number of occurrences of its
\* item (so at least 1), and Coverage() is the number of distinct items.
C11_Recomputed ==
    [][UpdateCoverage =>
          LET items == covFunc(covFuncs, coveredPath)
          IN  /\ DOMAIN coverCount' = Range(items)
              /\ \A s \in DOMAIN coverCount' :
                     /\ coverCount'[s] = Occurrences(items, s)
                     /\ coverCount'[s] >= 1
              /\ Coverage(coverCount') = Cardinality(Range(items))]_vars

\* the coverage was updated twice over a history in which an item occurs
\* more than once
C11_Witness ==
    /\ coveredLen >= 2
    /\ ~since.marked
    /\ ~since.registered
    /\ \E s \in DOMAIN coverCount : coverCount[s] >= 2
    /\ \E s \in DOMAIN coverCount : coverCount[s] = 1

\* the caller has marked Steps of the path it holds as covered
Marked ==
    /\ res.op = "BestPath"
    /\ res'.op = "BestPath"
    /\ res'.done > res.done

\* C12: MarkCovered appends exactly the given Steps, in order, to
\* c.coveredPath and leaves c.coverCount, Coverage() and CoveredStrings()
\* as they were; and no operation ever changes or removes a covered Step:
\* the old c.coveredPath is a prefix of the new one.
C12_Appends ==
    [][/\ Marked =>
            /\ coveredPath' = coveredPath \o SubSeq(res.path, res.done + 1, res'.done)
            /\ coverCount' = coverCount
            /\ Coverage(coverCount') = Coverage(coverCount)
            /\ CoveredStrings(coverCount') = CoveredStrings(coverCount)
       /\ coveredLen' >= coveredLen
       /\ SubSeq(coveredPath', 1, coveredLen) = coveredPath]_vars

\* Steps were marked on top of a history whose coverage had been updated,
\* and the coverage has not been updated since
C12_Witness ==
    /\ coveredLen >= 2
    /\ since.marked
    /\ Coverage(coverCount) > 0
    /\ coverCount # UpdateCoverageOf(Coverer)

(***************************************************************************)
(* Properties of the tests of model_test.go.                               *)
(***************************************************************************)
\* C13: the loop of TestSearchPathsTestSteps (BestPath with maxLen 6 under
\* state-action coverage, execute and mark the path up to and including
\* FirstStep, UpdateCoverage after every Step, go on from the end state of
\* the last executed Step) ends with BestPath returning no path, after
\* exactly 14 executed Steps and with Coverage() 14: every BestPath call
\* before that returns a path, every executed Step adds one to Coverage(),
\* no more than 14 Steps are ever executed, and when BestPath returns no
\* path 14 Steps have been executed and Coverage() is 14.
C13_LoopEnds ==
    test.name = "TestSearchPathsTestSteps" =>
        /\ test.pc # "failed"
        /\ test.i <= 14
        /\ coveredLen = test.i
        /\ test.pc \in {"search", "execute", "done", "passed"} =>
               Coverage(coverCount) = test.i
        /\ test.pc = "execute" =>
               /\ Len(res.path) > res.stats.FirstStep
               /\ res.stats.FirstStep >= 0
               /\ res.done <= res.stats.FirstStep => test.i < 14
        /\ test.pc = "done" =>
               /\ res.op = "BestPath"
               /\ res.path = <<>>
               /\ test.i = 14
               /\ Coverage(coverCount) = 14

\* the loop has been left with all state-action pairs covered
C13_Witness ==
    /\ At("TestSearchPathsTestSteps", "done")
    /\ res.path = <<>>
    /\ Coverage(coverCount) = 14
    /\ coveredLen = 14

\* C14: TestCoverPlayerActions, on either player model: from
\* {playing:false, song:1} with a fresh Coverer, CoverActionCombinations(1)
\* and maxLen 6, BestPath returns a path of 6 Steps with MaxIncrease 4 and
\* MaxStep 3, and the first four Steps of the path carry four different
\* actions: play, pause, nextsong and prevsong. The test never fails.
C14_ScenarioA ==
    test.name = "TestCoverPlayerActions" =>
        /\ test.pc # "failed"
        /\ test.pc \in {"check", "passed"} =>
              /\ res.op = "BestPath"
              /\ res.s = [playing |-> FALSE, song |-> 1]
              /\ covFuncs = <<[fn |-> "ActionCombinations", combLenMax |-> 1]>>
              /\ coveredLen = 0
              /\ Len(res.path) = 6
              /\ res.stats.MaxIncrease = 4
              /\ res.stats.MaxStep = 3
              /\ {res.path[k].action.name : k \in 1..4}
                     = {"play", "pause", "nextsong", "prevsong"}

\* the test has passed on the model written with When, OnAction and Do
C14_Witness ==
    /\ At("TestCoverPlayerActions", "passed")
    /\ gen = << "when" >>
    /\ Len(res.path) = 6
    /\ res.stats.MaxStep = 3

\* C15: TestCoverPlayerStates, on either player model: from
\* {playing:false, song:1} with a fresh Coverer, CoverStates() and maxLen 8,
\* BestPath returns a path of 8 Steps with MaxIncrease 6 and MaxStep 4 while
\* nothing is covered; after MarkCovered of the Steps up to and including
\* MaxStep (5 Steps) and UpdateCoverage, exactly 6 items are covered: the six
\* states of the player. The test never fails.
C15_ScenarioB ==
    test.name = "TestCoverPlayerStates" =>
        /\ test.pc # "failed"
        /\ test.pc \in {"check", "mark", "update", "recheck", "passed"} =>
              /\ res.op = "BestPath"
              /\ res.s = [playing |-> FALSE, song |-> 1]
              /\ covFuncs = <<[fn |-> "StateStrings"]>>
              /\ Len(res.path) = 8
              /\ res.stats.MaxIncrease = 6
              /\ res.stats.MaxStep = 4
        /\ test.pc \in {"check", "mark"} =>
              coveredLen = 0 /\ CoveredStrings(coverCount) = {}
        /\ test.pc \in {"recheck", "passed"} =>
              /\ coveredPath = SubSeq(res.path, 1, 5)
              /\ Cardinality(CoveredStrings(coverCount)) = 6
              /\ Coverage(coverCount) = 6
              /\ CoveredStrings(coverCount)
                     = {String([playing |-> p, song |-> n]) :
                            p \in BOOLEAN, n \in 1..NumSongs}

\* the test has passed: five Steps marked, six states covered
C15_Witness ==
    /\ At("TestCoverPlayerStates", "passed")
    /\ coveredLen = 5
    /\ Coverage(coverCount) = 6

(***************************************************************************)
(* Properties of Model.StepsFrom.                                          *)
(***************************************************************************)
\* the transitions the generators of m offer at s, in registration order
Offered(m, s) ==
    LET before(i) == Len(TransitionsFrom(SubSeq(m, 1, i - 1), s))
        total == before(Len(m) + 1)
        owner(k) == CHOOSE i \in 1..Len(m) :
                        before(i) < k /\ k <= before(i) + Len(CallGen(m[i], s))
    IN  [k \in 1..total |-> CallGen(m[owner(k)], s)[k - before(owner(k))]]

\* the places in ts of the transitions whose change applies at s
Applicable(ts, s) == {i \in 1..Len(ts) : Call(ts[i].stateChange, s) # Nil}

\* the place in ts of the k-th applicable transition
KthApplicable(ts, s, k) ==
    CHOOSE i \in Applicable(ts, s) :
        Cardinality({j \in Applicable(ts, s) : j <= i}) = k

\* the result of the StepsFrom call the caller holds
StepsReturned == res.op = "StepsFrom"

\* C16: StepsFrom(s) returns one Step for every Transition that
\* TransitionsFrom(s) offers and whose change applies at s, in the order of
\* TransitionsFrom (generators in registration order, a Transition offered
\* twice gives two Steps), with start s and end change(s); a Transition
\* whose change does not apply gives no Step. On the player models there are
\* 2 Steps (play, nextsong) from {playing:false, song:1} and 3 Steps (play,
\* nextsong, prevsong) from {playing:false, song:2}.
C16_StepsFrom ==
    StepsReturned =>
        LET s == res.s
            ts == TransitionsFrom(gen, s)
            steps == res.steps
        IN  /\ ts = Offered(gen, s)
            /\ Len(steps) = Cardinality(Applicable(ts, s))
            /\ \A k \in 1..Len(steps) :
                  LET t == ts[KthApplicable(ts, s, k)]
                  IN  /\ StartState(steps[k]) = s
                      /\ steps[k].action = t.action
                      /\ EndState(steps[k]) = Call(t.stateChange, s)
                      /\ EndState(steps[k]) # Nil
            /\ gen \in playerModels /\ s = [playing |-> FALSE, song |-> 1] =>
                  ActionNames(steps) = << "play", "nextsong" >>
            /\ gen \in playerModels /\ s = [playing |-> FALSE, song |-> 2] =>
                  ActionNames(steps) = << "play", "nextsong", "prevsong" >>

\* two generators registered, some of their Transitions do not apply, and one
\* Step is returned twice
C16_Witness ==
    /\ StepsReturned
    /\ Len(gen) = 2
    /\ Len(res.steps) < Len(TransitionsFrom(gen, res.s))
    /\ \E i, j \in 1..Len(res.steps) : i < j /\ res.steps[i] = res.steps[j]

(***************************************************************************)
(* Properties of the randomness modes of BestPath.                         *)
(***************************************************************************)
\* the candidates of the held BestPath call in the order its loop saw them
Shuffled == res.paths

\* what EstimateCoverageIncrease answers for each candidate of Shuffled
Estimates == [i \in 1..Len(Shuffled) |-> Estimate(Shuffled[i])]

\* the positions of the candidates that increase coverage, est being their
\* estimates
IncreasingIn(est) == {i \in DOMAIN est : est[i].MaxIncrease > 0}

\* stats a ranks strictly above stats b by the values that mode consults
BetterIn(mode, a, b) ==
    CASE mode = BestPathRandomAmongEquallyGood -> Better(a, b)
      [] mode = BestPathRandomAmongFastestMaxCoverageIncrease ->
            \/ a.MaxIncrease > b.MaxIncrease
            \/ a.MaxIncrease = b.MaxIncrease /\ a.MaxStep < b.MaxStep
      [] mode = BestPathRandomAmongMaxCoverageIncrease ->
            a.MaxIncrease > b.MaxIncrease
      [] mode = BestPathRandomAmongAnyPath -> FALSE

\* the candidate at place i is optimal by what mode consults
OptimalIn(mode, est, i) ==
    \A j \in IncreasingIn(est) : ~BetterIn(mode, est[j], est[i])

\* what BestPath returns for the same call without randomness
WithoutRandomness ==
    BestPathOf([Coverer EXCEPT !.randomness = BestPathRandomNone], Candidates)

\* a and b hold the same paths, each as often
SamePaths(a, b) ==
    /\ Len(a) = Len(b)
    /\ \A i \in DOMAIN a :
          Cardinality({j \in DOMAIN a : a[j] = a[i]})
              = Cardinality({j \in DOMAIN b : b[j] = a[i]})

Observable(c) == [c EXCEPT !.coveredArr = CoveredPathOf(c)]

\* a test of model_test.go holds what BestPath just returned
TestSearched == test.name # "none" /\ res.op = "BestPath" /\ res.fresh

Eager == WalkerPaths(Walker, res.s, res.maxLen)

\* the caller ranges over the sequence of an IterPaths call
Iterating == res.op = "IterPaths"

\* C19: Walker.Paths(s, maxLen) returns, in the same order, exactly the
\* paths that the sequence of Walker.IterPaths(s, maxLen) yields, each as it
\* is when it is yielded: the n-th yielded path is the n-th returned path,
\* the sequence ends after as many paths as Paths returns, and the returned
\* paths are copies, which the traversal going on in the shared buffer
\* leaves as they were. A yielded slice kept without copying shows the
\* buffer as it is now.
C19_LazyIsEager ==
    /\ Iterating =>
          /\ res.n <= Len(Eager)
          /\ Len(res.lens) = res.n
          /\ \A i \in 1..res.n : res.lens[i] = Len(Eager[i])
          /\ res.yielding => YieldedPath = Eager[res.n] /\ RetainedPath(res.n) = Eager[res.n]
          /\ res.done => res.n = Len(Eager)
          /\ \A i \in 1..res.n :
                RetainedPath(i) # Eager[i] =>
                    \E k \in 1..res.lens[i] : res.path[k] # Eager[i][k]
    /\ (res.op = "Walker.Paths" /\ res.fresh) =>
          res.paths = WalkerPaths(Walker, res.s, res.maxLen)

\* the second path is being yielded, and the first yielded path, kept
\* without copying, no longer is what it was when it was yielded
C19_Witness ==
    /\ Iterating
    /\ res.yielding
    /\ res.n >= 2
    /\ YieldedPath = Eager[res.n]
    /\ RetainedPath(1) # Eager[1]

(***************************************************************************)
(* The two player models of model_test.go.                                 *)
(***************************************************************************)
\* the player model written the other way
OtherModel(m) == IF m = << "raw" >> THEN << "when" >> ELSE << "raw" >>

RECURSIVE ReachableIn(_, _, _)
\* the states that paths of up to n Steps of m from the states S end in
ReachableIn(m, S, n) ==
    IF n = 0 THEN S
    ELSE ReachableIn(m, S \cup {EndState(step) : step \in
                                    UNION {Range(StepsFrom(m, s)) : s \in S}},
                     n - 1)

\* the states reachable from {playing:false, song:1}
ReachableStates ==
    ReachableIn(<< "raw" >>, {[playing |-> FALSE, song |-> 1]},
                Cardinality(PlayerState))

\* what a Step shows: the name of its action and its end state as a string
Shown(steps) ==
    [i \in 1..Len(steps) |-> << steps[i].action.name, String(EndState(steps[i])) >>]

ShownAll(paths) == [i \in 1..Len(paths) |-> Shown(paths[i])]

\* C20: the player model of NewTransition and StateChange functions and the
\* player model of When, OnAction and Do are the same model: in every state
\* reachable from {playing:false, song:1} StepsFrom returns the same
\* sequence of action names and end states in both, and StepsFrom, Paths of
\* the Model and of a Walker, and BestPath return on one what they return
\* on the other.
C20_SameModel ==
    /\ ReachableStates = ReachableIn(<< "when" >>, {[playing |-> FALSE, song |-> 1]},
                                     Cardinality(PlayerState))
    /\ \A s \in ReachableStates :
          Shown(StepsFrom(<< "raw" >>, s)) = Shown(StepsFrom(<< "when" >>, s))
    /\ (gen \in playerModels /\ res.op # "none" /\ res.op # "Estimate") =>
          /\ res.s \in ReachableStates
          /\ res.op = "StepsFrom" =>
                Shown(res.steps) = Shown(StepsFrom(OtherModel(gen), res.s))
          /\ res.op = "Model.Paths" =>
                ShownAll(res.paths)
                    = ShownAll(ModelPaths(OtherModel(gen), res.s, res.maxLen))
          /\ res.op = "Walker.Paths" =>
                ShownAll(res.paths)
                    = ShownAll(WalkerPaths([Walker EXCEPT !.m = OtherModel(gen)],
                                           res.s, res.maxLen))
          /\ BestPathReturned =>
                \E other \in {BestPathOf(Coverer, ModelPaths(OtherModel(gen), res.s,
                                                             res.maxLen))} :
                    /\ Shown(res.path) = Shown(other.path)
                    /\ res.stats = other.stats

\* BestPath has returned a path of two Steps on the model of When, OnAction
\* and Do, from a state in which a player can play and go to either
\* neighbouring song
C20_Witness ==
    /\ gen = << "when" >>
    /\ BestPathReturned
    /\ Len(res.path) = 2
    /\ res.s = [playing |-> FALSE, song |-> 2]
    /\ Len(StepsFrom(gen, res.s)) = 3

(***************************************************************************)
(* The Model during search.                                                *)
(***************************************************************************)
\* a search call is made or goes on: StepsFrom, Paths, BestPath, IterPaths
\* or the next path of a sequence
Searches == res' # res /\ res'.op # "none"

\* what the k-th of the two callers has been yielded is what it is yielded
\* when it ranges over its sequence alone
AsAlone(k) ==
    LET it == res.iters[k]
        alone == WalkerPaths(Walker, it.s, it.maxLen)
    IN  /\ it.n <= Len(alone)
        /\ it.yielding => SubSeq(it.path, 1, it.len) = alone[it.n]
        /\ it.done => it.n = Len(alone)

\* C21: the Model is read-only during search: no StepsFrom, Paths, BestPath
\* or IterPaths call and no step of a range loop over a sequence changes the
\* generators of the Model (or the step filter of the Walker); and of two
\* callers that range over the sequences of separate IterPaths calls on the
\* same Model, their steps interleaved in any order, each is yielded the
\* paths, in order, that it is yielded when it runs alone.
C21_ReadOnlyModel ==
    /\ [](res.op = "TwoIterPaths" => AsAlone(1) /\ AsAlone(2))
    /\ [][Searches => gen' = gen /\ stepFilter' = stepFilter]_vars

\* both callers are in the middle of their sequences, each holding a path
\* the other is not holding
C21_Witness ==
    /\ res.op = "TwoIterPaths"
    /\ \A k \in 1..2 : res.iters[k].yielding /\ res.iters[k].n >= 2
    /\ res.iters[1].n # res.iters[2].n
    /\ res.iters[1].s = res.iters[2].s
    /\ res.iters[1].maxLen = res.iters[2].maxLen
    /\ res.iters[1].path # res.iters[2].path

(***************************************************************************)
(* The stats of an estimate.                                               *)
(***************************************************************************)
\* the items not counted in c.coverCount that the history window followed by
\* the Steps of p up to and including index k (from 0) brings
NewItemsBy(p, k) ==
    NotCovered(Coverer, covFunc(covFuncs, Window \o SubSeq(p, 1, k + 1)))

\* est is what the definitions of the stats give for the candidate p
StatsAsDefined(est, p) ==
    LET last == Len(p) - 1
    IN  /\ est.MaxIncrease = Cardinality(NewItemsBy(p, last))
        /\ est.FirstStep \in 0..last
        /\ NewItemsBy(p, est.FirstStep) # {}
        /\ \A k \in 0..(est.FirstStep - 1) : NewItemsBy(p, k) = {}
        /\ est.FirstIncrease = Cardinality(NewItemsBy(p, est.FirstStep))
        /\ est.MaxStep \in 0..last
        /\ Cardinality(NewItemsBy(p, est.MaxStep)) = est.MaxIncrease
        /\ \A k \in 0..(est.MaxStep - 1) :
               Cardinality(NewItemsBy(p, k)) < est.MaxIncrease

\* C22: for a candidate with MaxIncrease > 0, EstimateCoverageIncrease
\* returns as FirstStep the index, from 0 and within the candidate, of the
\* first Step by which the history window followed by the candidate's Steps
\* so far brings an item that is not counted covered, as FirstIncrease the
\* number of different such items by that Step, as MaxIncrease their number
\* by the last Step, and as MaxStep the least index by which their number is
\* MaxIncrease; the Steps of the history window have no index. The stats
\* BestPath returns are these stats of the path it returns.
C22_StatsDefinitions ==
    /\ (EstimateReturned /\ res.est.MaxIncrease > 0) =>
           StatsAsDefined(res.est, res.path)
    /\ (BestPathReturned /\ res.path # <<>>) =>
           StatsAsDefined(res.stats, res.path)

\* an estimate under a criterion with a history window, Steps covered: the
\* first Step of the candidate brings nothing new, the second does
C22_Witness ==
    /\ EstimateReturned
    /\ Window # <<>>
    /\ res.est.MaxIncrease > 0
    /\ res.est.FirstStep = 1
    /\ NewItemsBy(res.path, 0) = {}

(***************************************************************************)
(* The combinations of actions.                                            *)
(***************************************************************************)
\* the paths a result holds
PathsHeld ==
    CASE res.op \in {"Estimate", "BestPath"} -> {res.path}
      [] res.op = "ModelPaths" -> {res.paths[i] : i \in 1..Len(res.paths)}
      [] OTHER -> {}

\* the runs of path: pairs <<i, j>> of the first and last Step, from 1, of
\* the contiguous runs of 1 to n Steps
RunsOf(path, n) ==
    {r \in (1..Len(path)) \X (1..Len(path)) :
        r[1] <= r[2] /\ r[2] - r[1] + 1 <= n}

RunItem(path, r) == Join(ActionNames(SubSeq(path, r[1], r[2])), Sep)

\* items has one item for every run of path of 1 to n Steps
OneItemPerRun(items, path, n) ==
    /\ Len(items) = Cardinality(RunsOf(path, n))
    /\ \A r \in RunsOf(path, n) :
          Occurrences(items, RunItem(path, r)) =
             Cardinality({q \in RunsOf(path, n) : RunItem(path, q) = RunItem(path, r)})

Combinations == {"ActionCombinations", "ActionFormatCombinations", "StateCombinations"}

\* a step that registers a criterion of combinations
RegistersCombinations ==
    /\ Len(covFuncs') = Len(covFuncs) + 1
    /\ covFuncs'[Len(covFuncs')].fn \in Combinations

\* C23: the criterion CoverActionCombinations(N) registers gives, for a
\* path, one item for every contiguous run of 1 to N of its Steps, the names
\* of the actions of the run in order joined by the separator, and none for
\* a run longer than the path; once a criterion of combinations of length N
\* is registered historyLen is at least N, and no registration lowers it.
C23_ActionCombinations ==
    /\ [](\A path \in PathsHeld : \A n \in 0..(MaxCombLen + 1) :
            OneItemPerRun(ActionCombinations(path, n), path, n))
    /\ [](\A i \in 1..Len(covFuncs) :
            covFuncs[i].fn \in Combinations => historyLen >= covFuncs[i].combLenMax)
    /\ [][RegistersCombinations =>
            /\ historyLen' >= covFuncs'[Len(covFuncs')].combLenMax
            /\ historyLen' >= historyLen]_vars
    /\ [][Len(covFuncs') > Len(covFuncs) => historyLen' >= historyLen]_vars

\* combinations of 2 registered before combinations of 1, historyLen still
\* 2, and a path of two Steps of different actions is held: its items are
\* the two names and the pair
C23_Witness ==
    /\ Len(covFuncs) = 2
    /\ covFuncs[1] = [fn |-> "ActionCombinations", combLenMax |-> 2]
    /\ covFuncs[2].fn \in Combinations
    /\ covFuncs[2].combLenMax = 1
    /\ historyLen = 2
    /\ res.op = "BestPath"
    /\ Len(res.path) = 2
    /\ res.path[1].action.name # res.path[2].action.name
    /\ Len(ActionCombinations(res.path, 2)) = 3

(***************************************************************************)
(* The combinations of states.                                             *)
(***************************************************************************)
\* the runs of 1 to n of the states a path visits, its start and the end of
\* every Step, as pairs <<i, j>> of the first and last state, from 1
StateRunsOf(path, n) ==
    {r \in (1..Len(StateStrings(path))) \X (1..Len(StateStrings(path))) :
        r[1] <= r[2] /\ r[2] - r[1] + 1 <= n}

StateRunItem(path, r) == Join(SubSeq(StateStrings(path), r[1], r[2]), Sep)

\* C24 as claimed: the criterion CoverStateCombinations(N) registers gives,
\* for a path, one item for every contiguous run of 1 to N of the states the
\* path visits, the Strings of the states of the run in order joined by the
\* separator; with N = 1 its items are the single states visited.
C24_AsClaimed ==
    \A path \in PathsHeld : \A n \in 1..MaxCombLen :
        /\ Len(StateCombinations(path, n)) = Cardinality(StateRunsOf(path, n))
        /\ {StateCombinations(path, n)[i] : i \in 1..Len(StateCombinations(path, n))}
              = {StateRunItem(path, r) : r \in StateRunsOf(path, n)}
        /\ n = 1 =>
              {StateCombinations(path, n)[i] : i \in 1..Len(StateCombinations(path, n))}
                 = {StateStrings(path)[i] : i \in 1..Len(StateStrings(path))}

(***************************************************************************)
(* The step filter.                                                        *)
(***************************************************************************)
\* a search of the Walker has answered while a step filter is set
FilteredSearch ==
    /\ res.op \in {"Walker.Paths", "IterPaths"}
    /\ stepFilter # NilFilter

\* C25: with a step filter set, Walker.Paths returns, and IterPaths yields,
\* exactly the maximal bounded paths of the filtered search in depth-first
\* order: at every depth only the Steps the filter keeps are followed, and a
\* state all of whose Steps the filter drops ends the path as a dead end
\* does.  Model.TransitionsFrom and Model.StepsFrom answer as they do without
\* a filter: every Transition the generators offer, every Step whose change
\* applies; and setting the filter leaves the Model as it was.
C25_StepFilter ==
    /\ [](FilteredSearch =>
            LET expected == MaximalPaths(Walker, res.s, res.maxLen)
            IN  /\ res.op = "Walker.Paths" => res.paths = expected
                /\ res.op = "IterPaths" /\ res.yielding =>
                      res.n <= Len(expected) /\ YieldedPath = expected[res.n]
                /\ res.op = "IterPaths" /\ res.done => res.n = Len(expected))
    /\ [](res.op = "TransitionsFrom" => res.ts = Offered(gen, res.s))
    /\ [](StepsReturned =>
            /\ Len(res.steps) = Cardinality(Applicable(Offered(gen, res.s), res.s))
            /\ res.steps = StepsFrom(Unfiltered.m, res.s))
    /\ [][stepFilter' # stepFilter => gen' = gen]_vars

\* with the filter that drops prevsong set, Walker.Paths has returned paths
\* of two Steps, different from those of the search without filter; a Step
\* of prevsong could have been taken second, and StepsFrom still offers it
C25_Witness ==
    /\ res.op = "Walker.Paths"
    /\ stepFilter = "noPrevsong"
    /\ res.maxLen = 2
    /\ Len(res.paths) >= 2
    /\ res.paths # WalkerPaths(Unfiltered, res.s, res.maxLen)
    /\ \E p \in Range(res.paths) :
          /\ Len(p) = 2
          /\ \E st \in Range(StepsFrom(gen, EndState(p[1]))) :
                st.action.name = "prevsong"

(***************************************************************************)
(* The test generation loop of the package doc and of                      *)
(* TestSearchPathsTestSteps, over any model built from GenPool, any        *)
(* criteria registered and any maxLen:                                     *)
(*   for { path, stats := coverer.BestPath(model, state, maxLen)           *)
(*         if len(path) == 0 { break }                                     *)
(*         for _, step := range path[:stats.FirstStep+1] {                 *)
(*             coverer.MarkCovered(step); coverer.UpdateCoverage() }       *)
(*         state = path[stats.FirstStep].EndState() }                      *)
(* test.pc is "setup" while the model and the Coverer are built and "loop" *)
(* afterwards; test.before is Coverage() at the last BestPath call.        *)
(***************************************************************************)
\* the most Steps a loop executes
MaxLoopSteps == 60

InLoop == test.name = "loop" /\ test.pc = "loop"

InSetup == test.name = "loop" /\ test.pc = "setup"

\* the for statement is entered
LoopEnter(maxLen) ==
    /\ InSetup
    /\ test' = [test EXCEPT !.pc = "loop", !.maxLen = maxLen]
    /\ UNCHANGED <<model, coverer, state, res, since>>

\* path, stats := coverer.BestPath(model, state, maxLen)
LoopBestPath ==
    /\ InLoop
    /\ Idle
    /\ \E r \in {BestPathOf(Coverer, ModelPaths(gen, state, test.maxLen))} :
          /\ Becomes(r.c)
          /\ res' = [op |-> "BestPath", fresh |-> TRUE, s |-> state,
                     maxLen |-> test.maxLen, path |-> r.path, stats |-> r.stats,
                     done |-> 0]
    /\ test' = [test EXCEPT !.before = Coverage(coverCount)]
    /\ UNCHANGED <<model, state, since>>

\* the loop is left by break
LoopBroken == InLoop /\ res.op = "BestPath" /\ Len(res.path) = 0

\* the range loop over path[:stats.FirstStep+1] has a Step left
LoopExecuting ==
    /\ InLoop
    /\ res.op = "BestPath"
    /\ Len(res.path) # 0
    /\ res.done < res.stats.FirstStep + 1

\* coverer.MarkCovered(step)
LoopMark ==
    /\ LoopExecuting
    /\ ~since.marked
    /\ test.i < MaxLoopSteps
    /\ Becomes(MarkCoveredOf(Coverer, << res.path[res.done + 1] >>))
    /\ res' = [res EXCEPT !.fresh = FALSE, !.done = res.done + 1]
    /\ since' = [since EXCEPT !.marked = TRUE]
    /\ test' = [test EXCEPT !.i = test.i + 1]
    /\ UNCHANGED <<model, state>>

\* coverer.UpdateCoverage()
LoopUpdate ==
    /\ InLoop
    /\ since.marked
    /\ UpdateCoverage

\* the range loop is over
LoopExecuted ==
    /\ InLoop
    /\ res.op = "BestPath"
    /\ Len(res.path) # 0
    /\ res.done = res.stats.FirstStep + 1
    /\ ~since.marked

\* state = path[stats.FirstStep].EndState()
LoopAdvance ==
    /\ LoopExecuted
    /\ state' = EndState(res.path[res.stats.FirstStep + 1])
    /\ res' = NoResult
    /\ UNCHANGED <<model, coverer, since, test>>

InitLoop ==
    /\ gen = <<>>
    /\ stepFilter = NilFilter
    /\ InitCoverer(NewCoverer)
    /\ state = [playing |-> FALSE, song |-> 1]
    /\ res = NoResult
    /\ since = [marked |-> FALSE, registered |-> FALSE]
    /\ test = [name |-> "loop", pc |-> "setup", i |-> 0, maxLen |-> 0, before |-> 0]

NextLoop ==
    \/ InSetup /\ \E g \in GenPool : From(g)
    \/ InSetup /\ CoverActions
    \/ InSetup /\ \E n \in 1..MaxCombLen : CoverActionCombinations(n)
    \/ InSetup /\ CoverStates
    \/ InSetup /\ CoverStateActions
    \/ InSetup /\ \E n \in 1..MaxCombLen : CoverStateCombinations(n)
    \/ \E maxLen \in Depths : LoopEnter(maxLen)
    \/ LoopBestPath
    \/ LoopMark
    \/ LoopUpdate
    \/ LoopAdvance

SpecLoop == InitLoop /\ [][NextLoop]_vars

\* WF_vars(LoopBestPath) with its ENABLED written out: the call can be made
\* exactly when the loop is at its for statement, and a step taken there is
\* the call
FairBestPath == []<>~(InLoop /\ Idle) \/ []<><<InLoop /\ Idle>>_vars

\* WF_vars(LoopUpdate) with its ENABLED written out: a step taken after
\* MarkCovered is UpdateCoverage
FairUpdate == []<>~(InLoop /\ since.marked) \/ []<><<InLoop /\ since.marked>>_vars

\* the program is sequential: a statement that can be executed is executed
SpecLoopFair ==
    /\ SpecLoop
    /\ WF_vars(\E maxLen \in Depths : LoopEnter(maxLen))
    /\ FairBestPath
    /\ WF_vars(LoopMark)
    /\ FairUpdate
    /\ WF_vars(LoopAdvance)

\* C26: in the loop every iteration in which BestPath returns a Path ends
\* with Coverage() greater than it was when BestPath was called, and the
\* loop reaches an iteration in which BestPath returns no Path.
C26_LoopEnds ==
    /\ [](LoopExecuted => Coverage(coverCount) > test.before)
    /\ [](LoopExecuting => Coverage(coverCount) >= test.before)
    /\ InLoop ~> LoopBroken

\* the loop of a model with transitions and of criteria of combinations has
\* been left after more than twenty Steps
C26_Witness ==
    /\ LoopBroken
    /\ test.i > 20
    /\ test.maxLen = MaxDepth
    /\ Len(covFuncs) = 2
    /\ Coverage(coverCount) > test.i

(***************************************************************************)
(* The stats BestPath returns.                                             *)
(***************************************************************************)
\* C27: whenever BestPath returns a Path that is not empty, its stats have
\* 0 <= FirstStep <= MaxStep < len(path) and 1 <= FirstIncrease <=
\* MaxIncrease, so that path[:FirstStep+1] and path[:MaxStep+1] are prefixes
\* of the Path that are not empty; also when Steps were marked covered and
\* UpdateCoverage was not called since.
C27_StatsBounds ==
    (BestPathReturned /\ res.path # <<>>) =>
        /\ 0 <= res.stats.FirstStep
        /\ res.stats.FirstStep <= res.stats.MaxStep
        /\ res.stats.MaxStep < Len(res.path)
        /\ 1 <= res.stats.FirstIncrease
        /\ res.stats.FirstIncrease <= res.stats.MaxIncrease
        /\ SubSeq(res.path, 1, res.stats.FirstStep + 1) # <<>>
        /\ Len(SubSeq(res.path, 1, res.stats.MaxStep + 1)) = res.stats.MaxStep + 1

\* BestPath has returned a Path while Steps marked covered were not counted
\* by UpdateCoverage; the first new item comes before the last
C27_Witness ==
    /\ BestPathReturned
    /\ since.marked
    /\ coveredLen > 0
    /\ Coverage(coverCount) = 0
    /\ res.path # <<>>
    /\ res.stats.FirstStep < res.stats.MaxStep
    /\ res.stats.FirstIncrease < res.stats.MaxIncrease

(***************************************************************************)
(* The two enumerators.                                                    *)
(***************************************************************************)
\* the paths Model.Paths and Walker.Paths, without step filter, return for
\* the call whose result the caller holds
OfModel == ModelPaths(gen, res.s, res.maxLen)

OfWalker == WalkerPaths(Unfiltered, res.s, res.maxLen)

\* the caller holds the result of one of the two, no step filter set
EnumeratorReturned ==
    /\ res.op \in {"Model.Paths", "Walker.Paths"}
    /\ stepFilter = NilFilter

\* C28 as claimed: for every Model, state and maxLen >= 0, Model.Paths and
\* Walker.Paths without step filter return the same sequence of paths.
C28_AsClaimed ==
    EnumeratorReturned =>
        /\ res.op = "Model.Paths" => res.paths = OfWalker
        /\ res.op = "Walker.Paths" => res.paths = OfModel

\* C28: Model.Paths and Walker.Paths without step filter return the same
\* sequence of paths (same number, same order, same Steps) whenever maxLen
\* is greater than 0 and the start state has an applicable Step; with
\* maxLen 0, or from a dead end, Model.Paths returns no Path and
\* Walker.Paths returns one Path, the empty one.
C28_Agree ==
    EnumeratorReturned =>
        /\ res.paths = IF res.op = "Model.Paths" THEN OfModel ELSE OfWalker
        /\ IF res.maxLen > 0 /\ ~DeadEnd(gen, res.s)
           THEN /\ OfModel = OfWalker
                /\ Len(OfModel) = Len(OfWalker)
                /\ \A i \in 1..Len(OfModel) :
                      /\ Len(OfModel[i]) = Len(OfWalker[i])
                      /\ \A k \in 1..Len(OfModel[i]) : OfModel[i][k] = OfWalker[i][k]
           ELSE OfModel = <<>> /\ OfWalker = << <<>> >>

\* Model.Paths has returned several different paths of two Steps, which
\* Walker.Paths returns too
C28_Witness ==
    /\ res.op = "Model.Paths"
    /\ stepFilter = NilFilter
    /\ res.maxLen = MaxDepth
    /\ Len(res.paths) >= 3
    /\ \A i \in 1..Len(res.paths) : Len(res.paths[i]) = MaxDepth
    /\ res.paths = OfWalker
    /\ res.paths[1] # res.paths[2]

(***************************************************************************)
(* The command-line driver: main generates a test of NewPlayerModel that   *)
(* covers every action in every state,                                     *)
(*   for { path, stats := coverer.BestPath(model, state, 8)                *)
(*         if len(path) == 0 { break }                                     *)
(*         for _, step := range path[:stats.MaxStep+1] {                   *)
(*             coverer.MarkCovered(step); coverer.UpdateCoverage() }       *)
(*         state = path[stats.FirstStep].EndState() }                      *)
(* test.i is stepCount, test.searches the number of BestPath calls made    *)
(* and test.maxLen the maxLen of the calls: DriverMaxLen in the driver,    *)
(* and every smaller one here.                                             *)
(***************************************************************************)
InDriver == test.name = "driver"

\* path, stats := coverer.BestPath(model, state, 8)
DriverBestPath ==
    /\ InDriver
    /\ Idle
    /\ test.searches < MaxSearches
    /\ \E r \in {BestPathOf(Coverer, ModelPaths(gen, state, test.maxLen))} :
          /\ Becomes(r.c)
          /\ res' = [op |-> "BestPath", fresh |-> TRUE, s |-> state,
                     maxLen |-> test.maxLen, path |-> r.path, stats |-> r.stats,
                     done |-> 0]
    /\ test' = [test EXCEPT !.searches = test.searches + 1]
    /\ UNCHANGED <<model, state, since>>

\* the range loop over path[:stats.MaxStep+1] has a Step left
DriverExecuting ==
    /\ InDriver
    /\ res.op = "BestPath"
    /\ Len(res.path) # 0
    /\ res.done < res.stats.MaxStep + 1

\* stepCount++; coverer.MarkCovered(step)
DriverMark ==
    /\ DriverExecuting
    /\ ~since.marked
    /\ Becomes(MarkCoveredOf(Coverer, << res.path[res.done + 1] >>))
    /\ res' = [res EXCEPT !.fresh = FALSE, !.done = res.done + 1]
    /\ since' = [since EXCEPT !.marked = TRUE]
    /\ test' = [test EXCEPT !.i = test.i + 1]
    /\ UNCHANGED <<model, state>>

\* coverer.UpdateCoverage()
DriverUpdate ==
    /\ InDriver
    /\ since.marked
    /\ UpdateCoverage

\* state = path[stats.FirstStep].EndState().(*PlayerState)
DriverAdvance ==
    /\ InDriver
    /\ res.op = "BestPath"
    /\ Len(res.path) # 0
    /\ res.done = res.stats.MaxStep + 1
    /\ ~since.marked
    /\ state' = EndState(res.path[res.stats.FirstStep + 1])
    /\ res' = NoResult
    /\ UNCHANGED <<model, coverer, since, test>>

InitDriver ==
    /\ gen = << "driver" >>
    /\ stepFilter = NilFilter
    /\ InitCoverer([NewCoverer EXCEPT !.covFuncs = << [fn |-> "StateActionStrings"] >>])
    /\ state = [playing |-> FALSE, song |-> 1, songcount |-> 1]
    /\ res = NoResult
    /\ since = [marked |-> FALSE, registered |-> FALSE]
    /\ test \in {[name |-> "driver", i |-> 0, searches |-> 0, maxLen |-> d] :
                   d \in 1..DriverMaxLen}

NextDriver ==
    \/ DriverBestPath
    \/ DriverMark
    \/ DriverUpdate
    \/ DriverAdvance

SpecDriver == InitDriver /\ [][NextDriver]_vars

\* C29 as claimed: in the generation loop of the driver (maxLen 8) the Steps
\* marked covered always form a chained Path, each starting, by String, in
\* the end state of the one marked before it, and every BestPath call
\* starts from the end state of the Step marked covered last.
C29_AsClaimed ==
    (InDriver /\ test.maxLen = DriverMaxLen) =>
        /\ Chained(coveredPath)
        /\ (Idle /\ coveredLen > 0) =>
               String(state) = String(EndState(coveredPath[coveredLen]))

============================================================================
